---- MODULE Spec2Model ----
(***************************************************************************)
(* Cohort-component projection engine of the demography simulator          *)
(* (runSimulation and the demographic rate functions).                     *)
(*                                                                         *)
(* Numbers.  The engine computes in IEEE-754 doubles.  The demographic     *)
(* arithmetic (rates, births, migrants, deaths, workforce, pensioners) is  *)
(* computed here in doubles too: a double is [neg, man, exp], the number   *)
(* man * 2^exp negated if neg, with man a natural number of exactly        *)
(* MantissaBits bits, or <<>> for zero; every operation rounds to the      *)
(* nearest double, ties to the even mantissa.  Math.round and Math.floor   *)
(* act on the exact value of the double, as in JavaScript.  Math.pow is    *)
(* computed by the steps of the runtime's routine (V8's port of fdlibm's   *)
(* e_pow.c), whose result may be one unit in the last place away from the  *)
(* nearest double.  Overflow and subnormal numbers are out of reach of the *)
(* quantities computed.                                                    *)
(*                                                                         *)
(* The parameters are decimal numbers, kept as integers in the unit of     *)
(* their last decimal and converted as a decimal literal is:               *)
(*   fertilityRate            in hundredths of a child per woman           *)
(*   mortalityImprovement     in thousandths per year                      *)
(*   unemploymentAdjustment   in hundredths                                *)
(*                                                                         *)
(* The money amounts derived from the rounded workforce and pensioners     *)
(* are kept as exact fractions.                                            *)
(***************************************************************************)
EXTENDS Integers, Sequences, FiniteSets, TLC

\* Largest number of years after startYear a run may cover.
MaxYears == 4

\* Years after startYear covered by the long run of a declining population.
HorizonYears == 50

\* The years the application projects (App.tsx).
START_YEAR == 2024
END_YEAR == 2100

----------------------------------------------------------------------------
(* Arithmetic helpers *)

Max(a, b) == IF a >= b THEN a ELSE b
Min(a, b) == IF a <= b THEN a ELSE b

----------------------------------------------------------------------------
(* Natural numbers of any size *)

\* A natural number is the sequence of its digits in base Limb = 2^LimbBits,
\* least significant first, without leading zeros; zero is <<>>.
Limb == 32768
LimbBits == 15

RECURSIVE BigOfNat(_)
BigOfNat(n) == IF n = 0 THEN <<>> ELSE <<n % Limb>> \o BigOfNat(n \div Limb)

RECURSIVE BigAddCarry(_, _, _)
BigAddCarry(a, b, c) ==
  IF a = <<>> /\ b = <<>> THEN BigOfNat(c)
  ELSE LET x == (IF a = <<>> THEN 0 ELSE Head(a))
                + (IF b = <<>> THEN 0 ELSE Head(b)) + c
       IN  <<x % Limb>> \o BigAddCarry(IF a = <<>> THEN <<>> ELSE Tail(a),
                                       IF b = <<>> THEN <<>> ELSE Tail(b),
                                       x \div Limb)

BigAdd(a, b) == BigAddCarry(a, b, 0)

\* a times one non-zero digit d, plus the carry c
RECURSIVE BigMulLimb(_, _, _)
BigMulLimb(a, d, c) ==
  IF a = <<>> THEN BigOfNat(c)
  ELSE LET x == Head(a) * d + c
       IN  <<x % Limb>> \o BigMulLimb(Tail(a), d, x \div Limb)

\* the digits i, i + 1, ... of a * d + s, c being carried into digit i
RECURSIVE BigMulAdd(_, _, _, _, _)
BigMulAdd(a, d, s, i, c) ==
  IF i > Len(a) /\ i > Len(s) THEN BigOfNat(c)
  ELSE LET x == (IF i <= Len(a) THEN a[i] * d ELSE 0)
                + (IF i <= Len(s) THEN s[i] ELSE 0) + c
       IN  <<x % Limb>> \o BigMulAdd(a, d, s, i + 1, x \div Limb)

\* the digits j, j + 1, ... of a * b for a # <<>>, acc being the digits
\* above j - 1 of a times the digits below j of b
RECURSIVE BigMulFrom(_, _, _, _)
BigMulFrom(a, b, j, acc) ==
  IF j > Len(b) THEN acc
  ELSE IF b[j] = 0
  THEN (IF acc = <<>> THEN <<0>> \o BigMulFrom(a, b, j + 1, <<>>)
        ELSE <<Head(acc)>> \o BigMulFrom(a, b, j + 1, Tail(acc)))
  ELSE CHOOSE digits \in
         {<<Head(row)>> \o BigMulFrom(a, b, j + 1, Tail(row)) :
            row \in {BigMulAdd(a, b[j], acc, 1, 0)}} : TRUE

BigMul(a, b) ==
  IF a = <<>> \/ b = <<>> THEN <<>> ELSE BigMulFrom(a, b, 1, <<>>)

\* -1, 0 or 1 as a is below, equal to or above b; n is the digit compared
RECURSIVE BigCmpFrom(_, _, _)
BigCmpFrom(a, b, n) ==
  IF n = 0 THEN 0
  ELSE IF a[n] < b[n] THEN -1
  ELSE IF a[n] > b[n] THEN 1
  ELSE BigCmpFrom(a, b, n - 1)

BigCmp(a, b) ==
  IF Len(a) < Len(b) THEN -1
  ELSE IF Len(a) > Len(b) THEN 1
  ELSE BigCmpFrom(a, b, Len(a))

\* the number of digits of a up to n that are left without the zeros at
\* the high end
RECURSIVE BigDigits(_, _)
BigDigits(a, n) == IF n = 0 \/ a[n] # 0 THEN n ELSE BigDigits(a, n - 1)

BigTrim(a) ==
  IF a = <<>> \/ a[Len(a)] # 0 THEN a
  ELSE SubSeq(a, 1, BigDigits(a, Len(a) - 1))

\* a - b for a >= b, before the leading zeros are removed
RECURSIVE BigSubBorrow(_, _, _)
BigSubBorrow(a, b, c) ==
  IF a = <<>> THEN <<>>
  ELSE LET x == Head(a) - (IF b = <<>> THEN 0 ELSE Head(b)) - c
       IN  <<x % Limb>>
           \o BigSubBorrow(Tail(a), IF b = <<>> THEN <<>> ELSE Tail(b),
                           IF x < 0 THEN 1 ELSE 0)

BigSub(a, b) == BigTrim(BigSubBorrow(a, b, 0))

\* The number of binary digits of n >= 0.
RECURSIVE BitLen(_)
BitLen(n) ==
  IF n >= Limb THEN LimbBits + BitLen(n \div Limb)
  ELSE IF n < 128
  THEN (IF n < 8
        THEN (IF n < 2 THEN n ELSE IF n < 4 THEN 2 ELSE 3)
        ELSE IF n < 32 THEN (IF n < 16 THEN 4 ELSE 5)
        ELSE IF n < 64 THEN 6 ELSE 7)
  ELSE IF n < 2048
  THEN (IF n < 512 THEN (IF n < 256 THEN 8 ELSE 9)
        ELSE IF n < 1024 THEN 10 ELSE 11)
  ELSE IF n < 8192 THEN (IF n < 4096 THEN 12 ELSE 13)
  ELSE IF n < 16384 THEN 14 ELSE 15

BigBitLen(a) ==
  IF a = <<>> THEN 0 ELSE LimbBits * (Len(a) - 1) + BitLen(a[Len(a)])

\* The value of a, for a below 2^31.
RECURSIVE IntOfBig(_)
IntOfBig(a) == IF a = <<>> THEN 0 ELSE Head(a) + Limb * IntOfBig(Tail(a))

\* a * 2^k
BigShiftLeft(a, k) ==
  IF a = <<>> \/ k = 0 THEN a
  ELSE IF k % LimbBits = 0 THEN [i \in 1..(k \div LimbBits) |-> 0] \o a
  ELSE [i \in 1..(k \div LimbBits) |-> 0]
       \o BigMulLimb(a, 2^(k % LimbBits), 0)

\* floor(a / 2^k)
BigShiftRight(a, k) ==
  LET q == k \div LimbBits
      r == 2^(k % LimbBits)
      n == Len(a) - q
  IN  IF n <= 0 THEN <<>>
      ELSE BigTrim([i \in 1..n |->
                      (a[i + q] \div r)
                      + (IF i + q < Len(a)
                         THEN (a[i + q + 1] % r) * (Limb \div r) ELSE 0)])

\* whether the binary digit of weight 2^k of a is 1, for a >= 2^k
BigBit(a, k) == (a[(k \div LimbBits) + 1] \div 2^(k % LimbBits)) % 2 = 1

\* whether 2^k divides a
BigDivisible(a, k) ==
  /\ \A i \in 1..Min(k \div LimbBits, Len(a)) : a[i] = 0
  /\ k \div LimbBits < Len(a) =>
       a[(k \div LimbBits) + 1] % (2^(k % LimbBits)) = 0

\* the largest digit q <= q0 with q * d <= r
RECURSIVE BigDigitDown(_, _, _)
BigDigitDown(q, r, d) ==
  IF q = 0 \/ BigCmp(BigMulLimb(d, q, 0), r) <= 0 THEN q
  ELSE BigDigitDown(q - 1, r, d)

\* the digit floor(r / d) for r < d * Limb, where the leading digit of d is
\* at least Limb / 2
BigDigit(r, d) ==
  LET n   == Len(d)
      top == (IF Len(r) > n THEN r[n + 1] * Limb ELSE 0)
             + (IF Len(r) >= n THEN r[n] ELSE 0)
  IN  BigDigitDown(Min(Limb - 1, top \div d[n]), r, d)

\* long division of rem * Limb^Len(low) + low by d, for rem < d
RECURSIVE BigDivLong(_, _, _)
BigDivLong(rem, low, d) ==
  IF low = <<>> THEN [quot |-> <<>>, rem |-> rem]
  ELSE LET r == BigTrim(<<low[Len(low)]>> \o rem)
       IN  CHOOSE result \in
             {LET s == IF q = 0 THEN r ELSE BigSub(r, BigMulLimb(d, q, 0))
                  t == BigDivLong(s, SubSeq(low, 1, Len(low) - 1), d)
              IN  [quot |-> t.quot \o <<q>>, rem |-> t.rem] :
                q \in {BigDigit(r, d)}} : TRUE

\* division by one digit d: the digits n..1 of a after the remainder r
RECURSIVE BigDivLimb(_, _, _, _)
BigDivLimb(a, d, n, r) ==
  IF n = 0 THEN [quot |-> <<>>, rem |-> BigOfNat(r)]
  ELSE LET x == r * Limb + a[n]
           t == BigDivLimb(a, d, n - 1, x % d)
       IN  [quot |-> t.quot \o <<x \div d>>, rem |-> t.rem]

\* floor(n / d), and the remainder times a power of two, for d > 0
BigDivMod(n, d) ==
  CHOOSE result \in
    {[quot |-> BigTrim(t.quot), rem |-> t.rem] :
       t \in {IF Len(d) = 1 THEN BigDivLimb(n, d[1], Len(n), 0)
              ELSE CHOOSE long \in
                     {LET k == Min(Len(m), Len(e) - 1)
                      IN  BigDivLong(SubSeq(m, Len(m) - k + 1, Len(m)),
                                     SubSeq(m, 1, Len(m) - k), e) :
                        m \in {BigShiftLeft(n, LimbBits - BitLen(d[Len(d)]))},
                        e \in {BigShiftLeft(d, LimbBits - BitLen(d[Len(d)]))}} :
                     TRUE}} : TRUE

\* the number of zero digits at the low end of a > 0
RECURSIVE BigZeroLimbs(_)
BigZeroLimbs(a) == IF Head(a) # 0 THEN 0 ELSE 1 + BigZeroLimbs(Tail(a))

\* the largest k with 2^k dividing a > 0
BigTrailingZeros(a) ==
  LET q == BigZeroLimbs(a)
  IN  LimbBits * q + Cardinality({k \in 1..LimbBits : a[q + 1] % (2^k) = 0})

\* floor(sqrt(n)) for 0 < n < 2^30, by Newton's iteration from above
RECURSIVE IntSqrtFrom(_, _)
IntSqrtFrom(n, x) ==
  LET y == (x + n \div x) \div 2
  IN  IF y >= x THEN x ELSE IntSqrtFrom(n, y)

IntSqrt(n) ==
  IF n = 0 THEN 0 ELSE IntSqrtFrom(n, 2^((BitLen(n) + 1) \div 2))

RECURSIVE BigSqrtFrom(_, _)
BigSqrtFrom(n, x) ==
  CHOOSE root \in
    {IF BigCmp(y, x) >= 0 THEN x ELSE BigSqrtFrom(n, y) :
       y \in {BigShiftRight(BigAdd(x, BigDivMod(n, x).quot), 1)}} : TRUE

\* floor(sqrt(n))
BigSqrt(n) ==
  IF n = <<>> THEN <<>>
  ELSE LET j == Max(0, (BigBitLen(n) - 28) \div 2)
           t == IntSqrt(IntOfBig(BigShiftRight(n, 2 * j))) + 1
       IN  BigSqrtFrom(n, BigShiftLeft(BigOfNat(t), j))

----------------------------------------------------------------------------
(* IEEE-754 double precision *)

\* Binary digits of the mantissa of a double.
MantissaBits == 53

\* The double nearest to m * 2^e (negated if neg) for m > 0, ties to the
\* even mantissa; m has t binary digits more than a mantissa.
RoundDigits(neg, m, e, t) ==
  IF t <= 0
  THEN [neg |-> neg, man |-> BigShiftLeft(m, -t), exp |-> e + t]
  ELSE CHOOSE rounded \in
         {IF BigBitLen(r) > MantissaBits
          THEN [neg |-> neg, man |-> BigShiftRight(r, 1), exp |-> e + t + 1]
          ELSE [neg |-> neg, man |-> r, exp |-> e + t] :
            r \in {IF BigBit(m, t - 1)
                      /\ (kept[1] % 2 = 1 \/ ~BigDivisible(m, t - 1))
                   THEN (IF kept[1] < Limb - 1
                         THEN [kept EXCEPT ![1] = @ + 1]
                         ELSE BigAdd(kept, <<1>>))
                   ELSE kept :
                     kept \in {BigShiftRight(m, t)}}} : TRUE

\* The double nearest to m * 2^e (negated if neg).
RoundToDouble(neg, m, e) ==
  IF m = <<>> THEN [neg |-> FALSE, man |-> <<>>, exp |-> 0]
  ELSE RoundDigits(neg, m, e, BigBitLen(m) - MantissaBits)

\* An integer as a number.
DoubleOfInt(i) ==
  RoundToDouble(i < 0, BigOfNat(IF i < 0 THEN -i ELSE i), 0)

DoubleZero == [neg |-> FALSE, man |-> <<>>, exp |-> 0]
DoubleOne ==
  [neg |-> FALSE, man |-> BigShiftLeft(<<1>>, MantissaBits - 1),
   exp |-> 1 - MantissaBits]

\* The result of arithmetic on a missing operand (undefined * x, and
\* Math.min of it): not a number.  It is no double: its mantissa is empty
\* and its exponent is not that of zero.
NotANumber == [neg |-> FALSE, man |-> <<>>, exp |-> 1]

IsNaN(x) == x = NotANumber

\* -x
DoubleNeg(x) == [x EXCEPT !.neg = ~@ /\ x.man # <<>>]

\* The product of two mantissas, digit by digit: every sum stays below
\* 2^31 because the leading digit of a mantissa is below 2^8.
MantissaProduct(a, b) ==
  LET c1 == a[1] * b[1]
      c2 == a[1] * b[2] + a[2] * b[1] + (c1 \div Limb)
      u3 == a[1] * b[3] + a[2] * b[2] + (c2 \div Limb)
      c3 == (u3 % Limb) + a[3] * b[1]
      u4 == a[2] * b[3] + a[3] * b[2]
      c4 == (u4 % Limb) + a[1] * b[4] + a[4] * b[1] 
            + (u3 \div Limb) + (c3 \div Limb)
      c5 == a[2] * b[4] + a[3] * b[3] + a[4] * b[2] + (u4 \div Limb)
            + (c4 \div Limb)
      c6 == a[3] * b[4] + a[4] * b[3] + (c5 \div Limb)
      c7 == a[4] * b[4] + (c6 \div Limb)
  IN  BigTrim(<<c1 % Limb, c2 % Limb, c3 % Limb, c4 % Limb, c5 % Limb,
                c6 % Limb, c7 % Limb, c7 \div Limb>>)

\* x * y
DoubleMul(x, y) ==
  IF x.man = <<>> \/ y.man = <<>> THEN DoubleZero
  ELSE RoundToDouble(x.neg # y.neg, MantissaProduct(x.man, y.man),
                     x.exp + y.exp)

\* The mantissa m times 2^d for d < 60, in eight digits.
MantissaShift(m, d) ==
  LET k  == 2^(d % LimbBits)
      w1 == m[1] * k
      w2 == m[2] * k
      w3 == m[3] * k
      w4 == m[4] * k
  IN  SubSeq(<<0, 0, 0>>, 1, d \div LimbBits)
      \o <<w1 % Limb, (w2 % Limb) + (w1 \div Limb),
           (w3 % Limb) + (w2 \div Limb), (w4 % Limb) + (w3 \div Limb),
           w4 \div Limb>>
      \o SubSeq(<<0, 0, 0>>, 1, 3 - (d \div LimbBits))

\* a + b for a of eight digits and a mantissa b
MantissaSum(a, b) ==
  LET s1 == a[1] + b[1]
      s2 == a[2] + b[2] + (s1 \div Limb)
      s3 == a[3] + b[3] + (s2 \div Limb)
      s4 == a[4] + b[4] + (s3 \div Limb)
      s5 == a[5] + (s4 \div Limb)
      s6 == a[6] + (s5 \div Limb)
      s7 == a[7] + (s6 \div Limb)
      s8 == a[8] + (s7 \div Limb)
  IN  BigTrim(<<s1 % Limb, s2 % Limb, s3 % Limb, s4 % Limb, s5 % Limb,
                s6 % Limb, s7 % Limb, s8 % Limb, s8 \div Limb>>)

\* a - b for a of eight digits and a mantissa b <= a; a digit below zero
\* borrows from the next
MantissaDifference(a, b) ==
  LET s1 == a[1] - b[1]
      s2 == a[2] - b[2] - (IF s1 < 0 THEN 1 ELSE 0)
      s3 == a[3] - b[3] - (IF s2 < 0 THEN 1 ELSE 0)
      s4 == a[4] - b[4] - (IF s3 < 0 THEN 1 ELSE 0)
      s5 == a[5] - (IF s4 < 0 THEN 1 ELSE 0)
      s6 == a[6] - (IF s5 < 0 THEN 1 ELSE 0)
      s7 == a[7] - (IF s6 < 0 THEN 1 ELSE 0)
      s8 == a[8] - (IF s7 < 0 THEN 1 ELSE 0)
  IN  BigTrim(<<s1 % Limb, s2 % Limb, s3 % Limb, s4 % Limb, s5 % Limb,
                s6 % Limb, s7 % Limb, s8 % Limb>>)

\* x + y for x and y other than 0 with x.exp >= y.exp.  A y below a
\* quarter of the last binary digit of x leaves x as it is; below tells
\* that x and y are of opposite signs and y is the larger.
DoubleAddAligned(x, y) ==
  LET below == x.neg # y.neg /\ x.exp = y.exp /\ BigCmp(x.man, y.man) < 0
  IN  IF x.exp - y.exp > MantissaBits + 1 THEN x
      ELSE RoundToDouble(
             IF below THEN y.neg ELSE x.neg,
             IF x.neg = y.neg
             THEN MantissaSum(MantissaShift(x.man, x.exp - y.exp), y.man)
             ELSE MantissaDifference(
                    MantissaShift(IF below THEN y.man ELSE x.man,
                                  x.exp - y.exp),
                    IF below THEN x.man ELSE y.man),
             y.exp)

\* x + y
DoubleAdd(x, y) ==
  IF x.man = <<>> THEN y
  ELSE IF y.man = <<>> THEN x
  ELSE DoubleAddAligned(IF x.exp >= y.exp THEN x ELSE y,
                        IF x.exp >= y.exp THEN y ELSE x)

\* x - y
DoubleSub(x, y) == DoubleAdd(x, DoubleNeg(y))

\* x / y for y # 0: the quotient to at least two digits more than the
\* mantissa, the last digit telling whether anything is left.  The divisor
\* is taken without the zeros at the low end of its mantissa.
DoubleDiv(x, y) ==
  IF x.man = <<>> THEN DoubleZero
  ELSE LET z == BigTrailingZeros(y.man)
       IN  CHOOSE quotient \in
             {RoundToDouble(x.neg # y.neg,
                BigAdd(BigShiftLeft(qr.quot, 1),
                       IF qr.rem = <<>> THEN <<>> ELSE <<1>>),
                x.exp - y.exp - z - MantissaBits - 3) :
                qr \in {BigDivMod(BigShiftLeft(x.man, MantissaBits + 2),
                                  BigShiftRight(y.man, z))}} : TRUE

\* Math.sqrt(x) for x >= 0
DoubleSqrt(x) ==
  IF x.man = <<>> THEN DoubleZero
  ELSE LET s == MantissaBits + 2 + ((x.exp - MantissaBits) % 2)
           n == BigShiftLeft(x.man, s)
       IN  CHOOSE root \in
             {RoundToDouble(FALSE,
                BigAdd(BigShiftLeft(r, 1),
                       IF BigMul(r, r) = n THEN <<>> ELSE <<1>>),
                ((x.exp - s) \div 2) - 1) :
                r \in {BigSqrt(n)}} : TRUE

\* The double with the given sign whose high word, sign bit left out, is hi
\* and whose low word is lo1 * 2^16 + lo0.
DoubleOfWords(neg, hi, lo1, lo0) ==
  [neg |-> neg,
   man |-> BigAdd(BigShiftLeft(BigOfNat(2^20 + (hi % 2^20)), 32),
                  BigAdd(BigShiftLeft(BigOfNat(lo1), 16), BigOfNat(lo0))),
   exp |-> (hi \div 2^20) - 1075]

\* High word of a double other than 0, sign bit left out
HighWord(x) == (x.exp + 1074) * 2^20 + IntOfBig(BigShiftRight(x.man, 32))

\* SET_LOW_WORD(x, 0)
ClearLowWord(x) ==
  IF x.man = <<>> THEN x
  ELSE [x EXCEPT !.man = BigShiftLeft(BigShiftRight(@, 32), 32)]

\* The constants of the runtime's Math.pow (its port of fdlibm's e_pow.c)
PowConstants ==
  [one   |-> DoubleOne,
   two   |-> DoubleOfInt(2),
   three |-> DoubleOfInt(3),
   L1    |-> DoubleOfWords(FALSE, \H3FE33333, \H3333, \H3303),
   L2    |-> DoubleOfWords(FALSE, \H3FDB6DB6, \HDB6F, \HABFF),
   L3    |-> DoubleOfWords(FALSE, \H3FD55555, \H518F, \H264D),
   L4    |-> DoubleOfWords(FALSE, \H3FD17460, \HA91D, \H4101),
   L5    |-> DoubleOfWords(FALSE, \H3FCD864A, \H93C9, \HDB65),
   L6    |-> DoubleOfWords(FALSE, \H3FCA7E28, \H4A45, \H4EEF),
   P1    |-> DoubleOfWords(FALSE, \H3FC55555, \H5555, \H553E),
   P2    |-> DoubleOfWords(TRUE, \H3F66C16C, \H16BE, \HBD93),
   P3    |-> DoubleOfWords(FALSE, \H3F11566A, \HAF25, \HDE2C),
   P4    |-> DoubleOfWords(TRUE, \H3EBBBD41, \HC5D2, \H6BF1),
   P5    |-> DoubleOfWords(FALSE, \H3E663769, \H72BE, \HA4D0),
   lg2   |-> DoubleOfWords(FALSE, \H3FE62E42, \HFEFA, \H39EF),
   lg2_h |-> DoubleOfWords(FALSE, \H3FE62E43, 0, 0),
   lg2_l |-> DoubleOfWords(TRUE, \H3E205C61, \H0CA8, \H6C39),
   cp    |-> DoubleOfWords(FALSE, \H3FEEC709, \HDC3A, \H03FD),
   cp_h  |-> DoubleOfWords(FALSE, \H3FEEC709, \HE000, 0),
   cp_l  |-> DoubleOfWords(TRUE, \H3E3E2FE0, \H145B, \H01F5)]

\* bp[k], dp_h[k] and dp_l[k] of the routine, k being 0 or 1
PowInterval(k) ==
  IF k = 0
  THEN [bp |-> DoubleOne, dp_h |-> DoubleZero, dp_l |-> DoubleZero]
  ELSE [bp   |-> DoubleOfWords(FALSE, \H3FF80000, 0, 0),
        dp_h |-> DoubleOfWords(FALSE, \H3FE2B803, \H4000, 0),
        dp_l |-> DoubleOfWords(FALSE, \H3E4CFDEB, \H43CF, \HD006)]

\* The routine's statements from "compute ss = s_h+s_l" to "z = p_l+p_h":
\* log2(ax) = t1 + t2, then y * log2(ax) = p_h + p_l.  A statement
\* <<d, op, a, b>> assigns a op b to d ("hi" clears the low word of a); a
\* name starting with q holds a subexpression.
PowLogProgram ==
  <<<<"u", "sub", "ax", "bp">>, <<"q1", "add", "ax", "bp">>,
    <<"v", "div", "one", "q1">>, <<"ss", "mul", "u", "v">>,
    <<"s_h", "hi", "ss", "ss">>,
    <<"q1", "sub", "t_h", "bp">>, <<"t_l", "sub", "ax", "q1">>,
    <<"q1", "mul", "s_h", "t_h">>, <<"q1", "sub", "u", "q1">>,
    <<"q2", "mul", "s_h", "t_l">>, <<"q1", "sub", "q1", "q2">>,
    <<"s_l", "mul", "v", "q1">>,
    <<"s2", "mul", "ss", "ss">>,
    <<"q1", "mul", "s2", "L6">>, <<"q1", "add", "L5", "q1">>,
    <<"q1", "mul", "s2", "q1">>, <<"q1", "add", "L4", "q1">>,
    <<"q1", "mul", "s2", "q1">>, <<"q1", "add", "L3", "q1">>,
    <<"q1", "mul", "s2", "q1">>, <<"q1", "add", "L2", "q1">>,
    <<"q1", "mul", "s2", "q1">>, <<"q1", "add", "L1", "q1">>,
    <<"q2", "mul", "s2", "s2">>, <<"r", "mul", "q2", "q1">>,
    <<"q1", "add", "s_h", "ss">>, <<"q1", "mul", "s_l", "q1">>,
    <<"r", "add", "r", "q1">>,
    <<"s2", "mul", "s_h", "s_h">>,
    <<"q1", "add", "three", "s2">>, <<"t_h", "add", "q1", "r">>,
    <<"t_h", "hi", "t_h", "t_h">>,
    <<"q1", "sub", "t_h", "three">>, <<"q1", "sub", "q1", "s2">>,
    <<"t_l", "sub", "r", "q1">>,
    <<"u", "mul", "s_h", "t_h">>,
    <<"q1", "mul", "s_l", "t_h">>, <<"q2", "mul", "t_l", "ss">>,
    <<"v", "add", "q1", "q2">>,
    <<"p_h", "add", "u", "v">>, <<"p_h", "hi", "p_h", "p_h">>,
    <<"q1", "sub", "p_h", "u">>, <<"p_l", "sub", "v", "q1">>,
    <<"z_h", "mul", "cp_h", "p_h">>,
    <<"q1", "mul", "cp_l", "p_h">>, <<"q2", "mul", "p_l", "cp">>,
    <<"q1", "add", "q1", "q2">>, <<"z_l", "add", "q1", "dp_l">>,
    <<"q1", "add", "z_h", "z_l">>, <<"q1", "add", "q1", "dp_h">>,
    <<"t1", "add", "q1", "t">>, <<"t1", "hi", "t1", "t1">>,
    <<"q1", "sub", "t1", "t">>, <<"q1", "sub", "q1", "dp_h">>,
    <<"q1", "sub", "q1", "z_h">>, <<"t2", "sub", "z_l", "q1">>,
    <<"y1", "hi", "y", "y">>,
    <<"q1", "sub", "y", "y1">>, <<"q1", "mul", "q1", "t1">>,
    <<"q2", "mul", "y", "t2">>, <<"p_l", "add", "q1", "q2">>,
    <<"p_h", "mul", "y1", "t1">>,
    <<"z", "add", "p_l", "p_h">>>>

\* The routine's statements under "compute 2**(p_h+p_l)", from
\* "t = p_l+p_h" to "z = one-(r-z)".  The quotient before the last is
\* r = (z*t1) / ((t1-two) - (w+z*w)), as the runtime's port of the routine
\* divides (fdlibm itself subtracts w+z*w after the division).
PowExpProgram ==
  <<<<"t", "add", "p_l", "p_h">>, <<"t", "hi", "t", "t">>,
    <<"u", "mul", "t", "lg2_h">>,
    <<"q1", "sub", "t", "p_h">>, <<"q1", "sub", "p_l", "q1">>,
    <<"q1", "mul", "q1", "lg2">>, <<"q2", "mul", "t", "lg2_l">>,
    <<"v", "add", "q1", "q2">>,
    <<"z", "add", "u", "v">>,
    <<"q1", "sub", "z", "u">>, <<"w", "sub", "v", "q1">>,
    <<"t", "mul", "z", "z">>,
    <<"q1", "mul", "t", "P5">>, <<"q1", "add", "P4", "q1">>,
    <<"q1", "mul", "t", "q1">>, <<"q1", "add", "P3", "q1">>,
    <<"q1", "mul", "t", "q1">>, <<"q1", "add", "P2", "q1">>,
    <<"q1", "mul", "t", "q1">>, <<"q1", "add", "P1", "q1">>,
    <<"q1", "mul", "t", "q1">>, <<"t1", "sub", "z", "q1">>,
    <<"q1", "mul", "z", "w">>, <<"q1", "add", "w", "q1">>,
    <<"q2", "sub", "t1", "two">>, <<"q2", "sub", "q2", "q1">>,
    <<"q1", "mul", "z", "t1">>, <<"r", "div", "q1", "q2">>,
    <<"q1", "sub", "r", "z">>, <<"z", "sub", "one", "q1">>>>

\* The variables of the routine that the statements assign, before they
\* are assigned
PowLocals ==
  [name \in {"u", "v", "ss", "s_h", "s_l", "t_l", "s2", "r", "p_h", "p_l",
             "z_h", "z_l", "t1", "t2", "y1", "z", "w", "q1", "q2"} |->
     DoubleZero] @@ [n |-> 0]

\* The variables after one statement
PowStatement(st, vals) ==
  [vals EXCEPT
     ![st[1]] = CASE st[2] = "add" -> DoubleAdd(vals[st[3]], vals[st[4]])
                  [] st[2] = "sub" -> DoubleSub(vals[st[3]], vals[st[4]])
                  [] st[2] = "mul" -> DoubleMul(vals[st[3]], vals[st[4]])
                  [] st[2] = "div" -> DoubleDiv(vals[st[3]], vals[st[4]])
                  [] st[2] = "hi"  -> ClearLowWord(vals[st[3]])]

\* The variables after the statements lo..hi of a program
RECURSIVE PowRun(_, _, _, _)
PowRun(program, lo, hi, vals) ==
  IF lo > hi THEN vals
  ELSE IF lo = hi THEN PowStatement(program[lo], vals)
  ELSE CHOOSE after \in
         {PowRun(program, ((lo + hi) \div 2) + 1, hi, half) :
            half \in {PowRun(program, lo, (lo + hi) \div 2, vals)}} : TRUE

\* The variables p_h and n of the routine after "if |z| > 0.5, set
\* n = [z+0.5]" and "p_h -= t"; i is the high word of |z|.
PowReduce(vals) ==
  LET i  == IF vals.z.man = <<>> THEN 0 ELSE HighWord(vals.z)
      k  == (i \div 2^20) - 1023
      m  == i + (2^20 \div 2^(k + 1))
      k2 == (m \div 2^20) - 1023
      t  == [DoubleOfWords(FALSE, m - (m % 2^(20 - k2)), 0, 0)
               EXCEPT !.neg = vals.z.neg]
      n  == ((m % 2^20) + 2^20) \div 2^(20 - k2)
  IN  IF i > \H3FE00000
      THEN [vals EXCEPT !.n = IF vals.z.neg THEN -n ELSE n,
                        !.p_h = DoubleSub(vals.p_h, t)]
      ELSE vals

\* Math.pow(x, n) for an integer n >= 0, as the runtime (V8) computes it:
\* 1, x and x * x for n up to 2; 0 and 1 raised to themselves; otherwise
\* 2^(n * log2|x|) by the runtime's port of the fdlibm routine, whose
\* result need not be the double nearest to the power.  j is the fraction
\* part of the high word of |x|, by which the routine scales |x| into
\* [sqrt(3)/2, sqrt(3)).
DoublePow(x, n) ==
  IF n = 0 THEN DoubleOne
  ELSE IF n = 1 THEN x
  ELSE IF n = 2 THEN DoubleMul(x, x)
  ELSE IF x.man = <<>> THEN DoubleZero
  ELSE IF x.man = DoubleOne.man /\ x.exp = DoubleOne.exp
  THEN [x EXCEPT !.neg = x.neg /\ n % 2 = 1]
  ELSE LET j  == IntOfBig(BigShiftRight(x.man, 32)) - 2^20
           k  == IF j > \H3988E /\ j < \HBB67A THEN 1 ELSE 0
           up == IF j >= \HBB67A THEN 1 ELSE 0
           ix == \H3FF00000 + j - up * 2^20
       IN  CHOOSE power \in
             {[neg |-> x.neg /\ n % 2 = 1, man |-> e.z.man,
               exp |-> e.z.exp + e.n] :
                e \in
                  {PowRun(PowExpProgram, 1, Len(PowExpProgram),
                          PowReduce(
                            PowRun(PowLogProgram, 1, Len(PowLogProgram),
                                   [ax  |-> [neg |-> FALSE, man |-> x.man,
                                             exp |-> 1 - MantissaBits - up],
                                    t_h |-> DoubleOfWords(FALSE,
                                              (ix \div 2) + \H20000000
                                                + \H80000 + k * \H40000,
                                              0, 0),
                                    t   |-> DoubleOfInt(x.exp + MantissaBits
                                                          - 1 + up),
                                    y   |-> DoubleOfInt(n)]
                                     @@ PowInterval(k) @@ PowConstants
                                     @@ PowLocals)))}} :
             TRUE

\* The double a decimal literal denotes: the one nearest to n / d.
DoubleOfDecimal(n, d) == DoubleDiv(DoubleOfInt(n), DoubleOfInt(d))

\* -1, 0 or 1 as x is below, equal to or above y
DoubleCmp(x, y) ==
  CHOOSE c \in {IF d.man = <<>> THEN 0 ELSE IF d.neg THEN -1 ELSE 1 :
                  d \in {DoubleSub(x, y)}} : TRUE

\* Math.min and Math.max of two numbers
DoubleMin(x, y) == IF DoubleCmp(x, y) <= 0 THEN x ELSE y
DoubleMax(x, y) == IF DoubleCmp(x, y) >= 0 THEN x ELSE y

\* floor(|x| * 2^k), and whether |x| * 2^k is an integer
Whole(x, k) ==
  IF x.exp + k >= 0 THEN IntOfBig(BigShiftLeft(x.man, x.exp + k))
  ELSE IntOfBig(BigShiftRight(x.man, -(x.exp + k)))

IsWhole(x, k) == x.exp + k >= 0 \/ BigDivisible(x.man, -(x.exp + k))

\* Math.floor(x)
MathFloor(x) ==
  IF ~x.neg THEN Whole(x, 0)
  ELSE -(Whole(x, 0) + IF IsWhole(x, 0) THEN 0 ELSE 1)

\* Math.round(x) = floor(x + 1/2), on the exact value of x
MathRound(x) ==
  IF ~x.neg THEN (Whole(x, 1) + 1) \div 2
  ELSE IF IsWhole(x, 1) THEN -(Whole(x, 1) \div 2)
  ELSE -((Whole(x, 1) + 1) \div 2)

----------------------------------------------------------------------------
(* Exact arithmetic for the money amounts *)

\* A number is [neg, num, den]: the fraction num / den, negated if neg.
\* A division by zero leaves den = <<>>.
Rat(neg, num, den) == [neg |-> neg /\ num # <<>>, num |-> num, den |-> den]

RatOfFrac(n, d) ==
  Rat(n < 0, BigOfNat(IF n < 0 THEN -n ELSE n), BigOfNat(d))

RatOfNat(n) == RatOfFrac(n, 1)

RatNeg(x) == Rat(~x.neg, x.num, x.den)

RatMul(x, y) == Rat(x.neg # y.neg, BigMul(x.num, y.num), BigMul(x.den, y.den))

RatDiv(x, y) == Rat(x.neg # y.neg, BigMul(x.num, y.den), BigMul(x.den, y.num))

RatAdd(x, y) ==
  CHOOSE sum \in
    {Rat(IF x.neg = y.neg \/ BigCmp(a, b) >= 0 THEN x.neg ELSE y.neg,
         IF x.neg = y.neg THEN BigAdd(a, b)
         ELSE IF BigCmp(a, b) >= 0 THEN BigSub(a, b)
         ELSE BigSub(b, a),
         BigMul(x.den, y.den)) :
       a \in {BigMul(x.num, y.den)}, b \in {BigMul(y.num, x.den)}} : TRUE

RatSub(x, y) == RatAdd(x, RatNeg(y))

\* -1, 0 or 1 as x is below, equal to or above y
RatCmp(x, y) ==
  CHOOSE c \in {IF d.num = <<>> THEN 0 ELSE IF d.neg THEN -1 ELSE 1 :
                  d \in {RatSub(x, y)}} : TRUE

RatMax(x, y) == IF RatCmp(x, y) >= 0 THEN x ELSE y
RatMin(x, y) == IF RatCmp(x, y) <= 0 THEN x ELSE y

RECURSIVE RatPow(_, _)
RatPow(x, e) == IF e = 0 THEN RatOfNat(1) ELSE RatMul(RatPow(x, e - 1), x)

----------------------------------------------------------------------------
(* Reference data *)

\* populationData.data: one row per age 0..100 (data/population2024).  The
\* table is not among the sources: the rows here have its documented shape
\* (a total per age and sex, ages 0..100) with about a thousandth of the
\* documented total of 10,749,635 people.
PopulationTotalAt(age) ==
  IF age < 15 THEN 82 + ((6 * age) \div 10)
  ELSE IF age < 30 THEN 92 + ((12 * (age - 15)) \div 10)
  ELSE IF age < 50 THEN 135 + ((15 * (age - 30)) \div 10)
  ELSE IF age < 65 THEN 165 - 2 * (age - 50)
  ELSE IF age < 85 THEN 135 - 5 * (age - 65)
  ELSE IF age < 100 THEN 45 - 3 * (age - 85)
  ELSE 24

populationData ==
  [i \in 1..101 |->
     LET age == i - 1
         t   == PopulationTotalAt(age)
         m   == IF age = 100 THEN 8 ELSE t \div 2
     IN  [age |-> age, male |-> m, female |-> t - m]]

\* lifeTables.qx: annual death probability by sex and age 0..100
\* (data/lifeTables), written in thousandths: the entry n is the literal
\* n / QxDen.  The age-100 entry is certain death.
QxDen == 1000

lifeTables ==
  [male   |-> [age \in 0..100 |->
                 IF age < 40 THEN 1
                 ELSE IF age < 60 THEN 6
                 ELSE IF age < 70 THEN 20
                 ELSE IF age < 80 THEN 50
                 ELSE IF age < 90 THEN 150
                 ELSE IF age < 98 THEN 350
                 ELSE IF age < 99 THEN 700
                 ELSE IF age < 100 THEN 900
                 ELSE 1000],
   female |-> [age \in 0..100 |->
                 IF age < 40 THEN 1
                 ELSE IF age < 60 THEN 5
                 ELSE IF age < 70 THEN 15
                 ELSE IF age < 80 THEN 40
                 ELSE IF age < 90 THEN 120
                 ELSE IF age < 98 THEN 300
                 ELSE IF age < 100 THEN 600
                 ELSE 1000]]

\* fertilityData.asfr: live births per 1000 women at the ages 15..49,
\* written in tenths: the entry n is the literal n / AsfrDen.
AsfrDen == 10

fertilityAsfr ==
  <<18, 35, 58, 85, 115, 150, 190, 235, 285, 340,
    400, 465, 530, 595, 655, 705, 740, 755, 750, 725,
    680, 620, 550, 470, 390, 310, 235, 170, 115, 70,
    40, 20, 9, 4, 1>>

\* The rates of the table are per thousand women.
PerThousand == 1000

\* fertilityData.sexRatioAtBirth.ratio = 1.05
SexRatioAtBirthNum == 105
SexRatioAtBirthDen == 100

\* The unit of params.fertilityRate, and the TFR the ASFR table is
\* calibrated to, 1.40.
FertilityDen == 100
BaseTFR == 140

\* migrationData.ageProfile: weights written in thousandths (the weight n
\* is the literal n / WeightDen).  An age group is kept as its lower bound
\* and, for "lo-hi", its upper bound; "lo+" has no upper bound.
WeightDen == 1000

AgeBand(lo, hi, w) == [lo |-> lo, hi |-> hi, plus |-> FALSE, weight |-> w]
AgeOpen(lo, w)     == [lo |-> lo, hi |-> lo, plus |-> TRUE, weight |-> w]

migrationAgeProfile ==
  [male   |-> <<AgeBand(0, 4, 25), AgeBand(5, 9, 20), AgeBand(10, 14, 15),
                AgeBand(15, 19, 30), AgeBand(20, 24, 90),
                AgeBand(25, 29, 140), AgeBand(30, 34, 150),
                AgeBand(35, 39, 120), AgeBand(40, 44, 85),
                AgeBand(45, 49, 55), AgeBand(50, 54, 35),
                AgeBand(55, 59, 25), AgeBand(60, 64, 20),
                AgeBand(65, 69, 15), AgeBand(70, 74, 10),
                AgeBand(75, 79, 5), AgeOpen(80, 3)>>,
   female |-> <<AgeBand(0, 4, 23), AgeBand(5, 9, 18), AgeBand(10, 14, 14),
                AgeBand(15, 19, 28), AgeBand(20, 24, 95),
                AgeBand(25, 29, 145), AgeBand(30, 34, 145),
                AgeBand(35, 39, 115), AgeBand(40, 44, 80),
                AgeBand(45, 49, 50), AgeBand(50, 54, 32),
                AgeBand(55, 59, 22), AgeBand(60, 64, 18),
                AgeBand(65, 69, 15), AgeBand(70, 74, 12),
                AgeBand(75, 79, 8), AgeOpen(80, 5)>>]

\* migrationData.sexRatio.ratio = 0.48, the male share.
MigrationSexRatioNum == 48
MigrationSexRatioDen == 100

\* economicParams (data/economicParams.json).  Employment rates by age
\* group, written in hundredths (the rate n is the literal n / RateDen); the
\* last two groups are those the engine's comments quote.
RateDen == 100

EmploymentBand(lo, hi, r) == [lo |-> lo, hi |-> hi, plus |-> FALSE, rate |-> r]
EmploymentOpen(lo, r)     == [lo |-> lo, hi |-> lo, plus |-> TRUE, rate |-> r]

employmentRates ==
  <<EmploymentBand(15, 24, 28), EmploymentBand(25, 54, 84),
    EmploymentBand(55, 64, 66), EmploymentBand(65, 69, 15),
    EmploymentOpen(70, 4)>>

\* healthcare.ageMultipliers, in tenths, for '0-19', '20-64', '65-74',
\* '75-84' and '85+'
healthcareAgeMultipliers == <<6, 10, 25, 40, 60>>
MultiplierDen == 10

averageGrossSalary2024 == 1505
annualMultiplier       == 14
averagePension2024     == 580
perCapitaSpending2024  == 2744
gdpPerWorker2024       == 42500
ssContributionRate     == RatOfFrac(3475, 10000)
usdToEur               == RatOfFrac(93, 100)
annualGrowthRate       == RatOfFrac(15, 1000)
healthcareInflation    == RatOfFrac(2, 100)
publicShare            == RatOfFrac(66, 100)

----------------------------------------------------------------------------
(* Demographic rate functions *)

generateInitialData ==
  [i \in 1..Len(populationData) |->
     [age    |-> populationData[i].age,
      male   |-> populationData[i].male,
      female |-> populationData[i].female,
      total  |-> populationData[i].male + populationData[i].female]]

\* The unit of params.mortalityImprovement: thousandths per year.
ImprovementDen == 1000

\* Variant: the improvement is applied at every age, the terminal one
\* included.
getMortalityRateImprovesAll(age, sex, yearsFromBase, mortalityImprovement) ==
  LET qxArray == IF sex = "male" THEN lifeTables.male ELSE lifeTables.female
      improvementRate ==
        DoubleOfDecimal(IF sex = "male" THEN mortalityImprovement.male
                        ELSE mortalityImprovement.female, ImprovementDen)
      baseQx == DoubleOfDecimal(qxArray[Min(age, 100)], QxDen)
      improvedQx ==
        DoubleMul(baseQx,
                  DoublePow(DoubleSub(DoubleOne, improvementRate),
                            yearsFromBase))
  IN  IF age < 0 THEN NotANumber ELSE DoubleMin(improvedQx, DoubleOne)

\* Variant: the age is capped at 99, so the terminal aggregate is given the
\* probability of age 99.
getMortalityRateCapAt99(age, sex, yearsFromBase, mortalityImprovement) ==
  LET qxArray == IF sex = "male" THEN lifeTables.male ELSE lifeTables.female
      improvementRate ==
        DoubleOfDecimal(IF sex = "male" THEN mortalityImprovement.male
                        ELSE mortalityImprovement.female, ImprovementDen)
      baseQx == DoubleOfDecimal(qxArray[Min(age, 99)], QxDen)
      improvedQx ==
        IF age >= 100 THEN baseQx
        ELSE DoubleMul(baseQx,
                       DoublePow(DoubleSub(DoubleOne, improvementRate),
                                 yearsFromBase))
  IN  IF age < 0 THEN NotANumber ELSE DoubleMin(improvedQx, DoubleOne)

\* Mortality probability of one age and sex in a year of the projection;
\* not a number for an age below the table (qxArray[age] is undefined,
\* undefined * x is NaN and Math.min(NaN, 1.0) is NaN).
getMortalityRate(age, sex, yearsFromBase, mortalityImprovement) ==
  LET qxArray == IF sex = "male" THEN lifeTables.male ELSE lifeTables.female
      improvementRate ==
        DoubleOfDecimal(IF sex = "male" THEN mortalityImprovement.male
                        ELSE mortalityImprovement.female, ImprovementDen)
      baseQx == DoubleOfDecimal(qxArray[Min(age, 100)], QxDen)
      improvedQx ==
        IF age >= 100 THEN baseQx
        ELSE DoubleMul(baseQx,
                       DoublePow(DoubleSub(DoubleOne, improvementRate),
                                 yearsFromBase))
  IN  IF age < 0 THEN NotANumber ELSE DoubleMin(improvedQx, DoubleOne)

\* Variant: an age outside the table is given the rate of the nearest age
\* of the table.
getFertilityRateNearestAge(age) ==
  DoubleDiv(DoubleOfDecimal(fertilityAsfr[Max(15, Min(age, 49)) - 14],
                            AsfrDen),
            DoubleOfInt(PerThousand))

\* Births per woman per year at one age: asfrEntry.rate / 1000, and 0
\* outside the table.
getFertilityRate(age) ==
  IF age >= 15 /\ age <= 49
  THEN DoubleDiv(DoubleOfDecimal(fertilityAsfr[age - 14], AsfrDen),
                 DoubleOfInt(PerThousand))
  ELSE DoubleZero

parseAgeGroup(g) == IF g.plus THEN <<g.lo, 100>> ELSE <<g.lo, g.hi>>

\* totalWeight after the first n groups of the profile: 0, then
\* totalWeight += group.weight
RECURSIVE SumWeights(_, _)
SumWeights(profile, n) ==
  IF n = 0 THEN DoubleZero
  ELSE CHOOSE sum \in {DoubleAdd(before,
                                 DoubleOfDecimal(profile[n].weight, WeightDen)) :
                         before \in {SumWeights(profile, n - 1)}} : TRUE

\* totalWeight of getMigrationWeight, per sex
TotalWeightMale ==
  SumWeights(migrationAgeProfile.male, Len(migrationAgeProfile.male))
TotalWeightFemale ==
  SumWeights(migrationAgeProfile.female, Len(migrationAgeProfile.female))

\* Index of the first age group of the profile that contains age, 0 if none.
RECURSIVE FindGroup(_, _, _)
FindGroup(profile, age, i) ==
  IF i > Len(profile) THEN 0
  ELSE LET r == parseAgeGroup(profile[i])
       IN  IF age >= r[1] /\ age <= r[2] THEN i
           ELSE FindGroup(profile, age, i + 1)

\* Migration weight of one age: (weight / totalWeight) / groupSize, or 0
\* when no group contains the age.
getMigrationWeight(age, sex) ==
  LET profile == IF sex = "male" THEN migrationAgeProfile.male
                 ELSE migrationAgeProfile.female
      totalWeight == IF sex = "male" THEN TotalWeightMale
                     ELSE TotalWeightFemale
      g == FindGroup(profile, age, 1)
  IN  IF g = 0 THEN DoubleZero
      ELSE LET r == parseAgeGroup(profile[g])
               groupSize == r[2] - r[1] + 1
           IN  DoubleDiv(DoubleDiv(DoubleOfDecimal(profile[g].weight,
                                                   WeightDen),
                                   totalWeight),
                         DoubleOfInt(groupSize))

----------------------------------------------------------------------------
(* Projection driver: parameter validation *)

\* Variant: the female mortality-improvement rate is not checked.
ValidationErrorNoFemaleCheck(p) ==
  IF p.fertilityRate < 0 \/ p.fertilityRate > 1000
    THEN "Invalid fertility rate"
  ELSE IF p.retirementAge < 50 \/ p.retirementAge > 80
    THEN "Invalid retirement age"
  ELSE IF p.netMigration < -500000 \/ p.netMigration > 500000
    THEN "Invalid net migration"
  ELSE IF p.mortalityImprovement.male < -50
          \/ p.mortalityImprovement.male > 50
    THEN "Invalid male mortality improvement"
  ELSE ""

\* The message of the first failing check, "" when every check passes.
\* In the units of the parameters the bounds are 0 and 10.00 children,
\* 50 and 80 years, -500000 and 500000 persons, -0.050 and 0.050 a year.
ValidationError(p) ==
  IF p.fertilityRate < 0 \/ p.fertilityRate > 1000
    THEN "Invalid fertility rate"
  ELSE IF p.retirementAge < 50 \/ p.retirementAge > 80
    THEN "Invalid retirement age"
  ELSE IF p.netMigration < -500000 \/ p.netMigration > 500000
    THEN "Invalid net migration"
  ELSE IF p.mortalityImprovement.male < -50
          \/ p.mortalityImprovement.male > 50
    THEN "Invalid male mortality improvement"
  ELSE IF p.mortalityImprovement.female < -50
          \/ p.mortalityImprovement.female > 50
    THEN "Invalid female mortality improvement"
  ELSE ""

----------------------------------------------------------------------------
(* Projection driver: statistics of the current year *)

\* Variant: the working band starts after age 15, so the cohort aged 15 is
\* counted in no band.
InBandAfterFifteen(g, band, workingAgeLimit) ==
  CASE band = "child"   -> g.age < 15
    [] band = "working" -> g.age > 15 /\ g.age < workingAgeLimit
    [] band = "retired" -> g.age >= workingAgeLimit
    [] OTHER            -> TRUE

\* Whether a cohort is counted in an age band of the yearly statistics.
InBand(g, band, workingAgeLimit) ==
  CASE band = "child"   -> g.age < 15
    [] band = "working" -> g.age >= 15 /\ g.age < workingAgeLimit
    [] band = "retired" -> g.age >= workingAgeLimit
    [] OTHER            -> TRUE

\* pop.filter(g => in band).reduce((sum, g) => sum + g.total, 0), over the
\* cohorts lo..hi of pop
RECURSIVE SumTotalsOfBand(_, _, _, _, _)
SumTotalsOfBand(pop, lo, hi, band, workingAgeLimit) ==
  IF lo > hi THEN 0
  ELSE IF lo = hi
  THEN (IF InBand(pop[lo], band, workingAgeLimit) THEN pop[lo].total ELSE 0)
  ELSE LET mid == (lo + hi) \div 2
       IN  SumTotalsOfBand(pop, lo, mid, band, workingAgeLimit)
           + SumTotalsOfBand(pop, mid + 1, hi, band, workingAgeLimit)

ChildPop(pop) == SumTotalsOfBand(pop, 1, Len(pop), "child", 0)

WorkingPop(pop, workingAgeLimit) ==
  SumTotalsOfBand(pop, 1, Len(pop), "working", workingAgeLimit)

\* Variant: the retired band starts at 65 whatever the retirement age.
RetiredPopFromSixtyFive(pop, workingAgeLimit) ==
  SumTotalsOfBand(pop, 1, Len(pop), "retired", 65)

RetiredPop(pop, workingAgeLimit) ==
  SumTotalsOfBand(pop, 1, Len(pop), "retired", workingAgeLimit)

\* nextPop.reduce((sum, g) => sum + g.total, 0)
SumTotals(pop) == SumTotalsOfBand(pop, 1, Len(pop), "all", 0)

----------------------------------------------------------------------------
(* Economic metrics calculator *)

\* The unit of unemploymentAdjustment: hundredths.
UnemploymentDen == 100

\* Variant: the adjusted rate is returned as it is.
ClampRateUnclamped(adjustedRate) == adjustedRate

\* Math.max(0, Math.min(1, adjustedRate))
ClampRate(adjustedRate) ==
  DoubleMax(DoubleZero, DoubleMin(DoubleOne, adjustedRate))

\* Share of one age that is employed: baseRate * (1 - unemploymentAdjustment)
\* for the rate of the age moved back by the entry shift, clamped.
getEmploymentRate(age, workforceEntryAgeShift, unemploymentAdjustment) ==
  LET effectiveAge == Max(15, age - workforceEntryAgeShift)
      i            == FindGroup(employmentRates, effectiveAge, 1)
      baseRate     == IF i = 0 THEN DoubleZero
                      ELSE DoubleOfDecimal(employmentRates[i].rate, RateDen)
      adjustedRate ==
        DoubleMul(baseRate,
                  DoubleSub(DoubleOne,
                            DoubleOfDecimal(unemploymentAdjustment,
                                            UnemploymentDen)))
  IN  ClampRate(adjustedRate)

\* Healthcare cost multiplier of one age, in tenths.
getHealthcareMultiplier(age) ==
  IF age <= 19 THEN healthcareAgeMultipliers[1]
  ELSE IF age <= 64 THEN healthcareAgeMultipliers[2]
  ELSE IF age <= 74 THEN healthcareAgeMultipliers[3]
  ELSE IF age <= 84 THEN healthcareAgeMultipliers[4]
  ELSE healthcareAgeMultipliers[5]

\* Variant: everybody of retirement age counts as a pensioner.
CohortShareAllPensioned(g, what, retirementAge, shift, unemployment) ==
  CHOOSE share \in
    {IF what = "workforce"
     THEN (IF g.age >= 15 /\ g.age < retirementAge
           THEN DoubleMul(DoubleOfInt(g.total), employmentRate)
           ELSE IF g.age >= retirementAge
           THEN DoubleMul(DoubleOfInt(g.total), employmentRate)
           ELSE DoubleZero)
     ELSE (IF g.age >= retirementAge THEN DoubleOfInt(g.total)
           ELSE DoubleZero) :
       employmentRate \in
         {getEmploymentRate(g.age, shift, unemployment)}} : TRUE

\* What one cohort adds to actualWorkforce (group.total * employment rate,
\* in working age or past retirement) or to actualPensioners
\* (group.total * (1 - employmentRate), past retirement).
CohortShare(g, what, retirementAge, shift, unemployment) ==
  CHOOSE share \in
    {IF what = "workforce"
     THEN (IF g.age >= 15 /\ g.age < retirementAge
           THEN DoubleMul(DoubleOfInt(g.total), employmentRate)
           ELSE IF g.age >= retirementAge
           THEN DoubleMul(DoubleOfInt(g.total), employmentRate)
           ELSE DoubleZero)
     ELSE (IF g.age >= retirementAge
           THEN DoubleMul(DoubleOfInt(g.total),
                          DoubleSub(DoubleOne, employmentRate))
           ELSE DoubleZero) :
       employmentRate \in
         {getEmploymentRate(g.age, shift, unemployment)}} : TRUE

\* The loop over the population that adds the shares up: sum after the
\* cohorts lo..hi, taken in the order of pop, from the sum before them.
RECURSIVE SumShares(_, _, _, _, _, _, _, _)
SumShares(pop, lo, hi, before, what, retirementAge, shift, unemployment) ==
  IF lo > hi THEN before
  ELSE IF lo = hi
  THEN DoubleAdd(before,
                 CohortShare(pop[lo], what, retirementAge, shift,
                             unemployment))
  ELSE CHOOSE sum \in
         {SumShares(pop, ((lo + hi) \div 2) + 1, hi, half, what,
                    retirementAge, shift, unemployment) :
            half \in {SumShares(pop, lo, (lo + hi) \div 2, before, what,
                                retirementAge, shift, unemployment)}} : TRUE

\* Sum of group.total * multiplier over the cohorts lo..hi, in tenths
RECURSIVE SumMultiplied(_, _, _)
SumMultiplied(pop, lo, hi) ==
  IF lo > hi THEN 0
  ELSE IF lo = hi THEN pop[lo].total * getHealthcareMultiplier(pop[lo].age)
  ELSE LET mid == (lo + hi) \div 2
       IN  SumMultiplied(pop, lo, mid) + SumMultiplied(pop, mid + 1, hi)

\* Variant: the amount is divided by the workforce whatever it is.
PerWorkerUnguarded(amount, actualWorkforce) ==
  RatDiv(amount, RatOfNat(actualWorkforce))

\* actualWorkforce > 0 ? amount / actualWorkforce : 0
PerWorker(amount, actualWorkforce) ==
  IF actualWorkforce > 0 THEN RatDiv(amount, RatOfNat(actualWorkforce))
  ELSE RatOfNat(0)

\* 40% of GDP as the largest sustainable burden
maxSustainableBurdenRatio == RatOfFrac(40, 100)

\* Variant: the burden is measured against the whole of GDP.
SustainabilityIndexOfGdp(totalFiscalBurden, gdpProxy) ==
  IF RatCmp(gdpProxy, RatOfNat(0)) > 0
  THEN RatMax(RatOfNat(0),
         RatMin(RatOfNat(100),
           RatMul(RatOfNat(100),
             RatSub(RatOfNat(1), RatDiv(totalFiscalBurden, gdpProxy)))))
  ELSE RatOfNat(0)

\* 0 when gdpProxy is not positive, else
\* Math.max(0, Math.min(100, 100 * (1 - burdenAsShareOfGDP / 0.40)))
SustainabilityIndex(totalFiscalBurden, gdpProxy) ==
  IF RatCmp(gdpProxy, RatOfNat(0)) > 0
  THEN LET burdenAsShareOfGDP == RatDiv(totalFiscalBurden, gdpProxy)
       IN  RatMax(RatOfNat(0),
             RatMin(RatOfNat(100),
               RatMul(RatOfNat(100),
                 RatSub(RatOfNat(1),
                   RatDiv(burdenAsShareOfGDP, maxSustainableBurdenRatio)))))
  ELSE RatOfNat(0)

\* workingAgePop > 0 ? actualWorkforce / workingAgePop : 0
LaborUtilizationRate(actualWorkforce, workingAgePop) ==
  IF workingAgePop > 0 THEN RatOfFrac(actualWorkforce, workingAgePop)
  ELSE RatOfNat(0)

calculateEconomicMetrics(population, retirementAge, yearsFromBase, workforceEntryAgeShift, unemploymentAdjustment) ==
  LET n == Len(population)
      baseAvgSalary  == RatOfNat(averageGrossSalary2024 * annualMultiplier)
      baseAvgPension == RatOfNat(averagePension2024 * annualMultiplier)
      baseHealthcareCost == RatMul(RatOfNat(perCapitaSpending2024), usdToEur)
      wageInflationFactor ==
        RatPow(RatAdd(RatOfNat(1), annualGrowthRate), yearsFromBase)
      healthcareInflationFactor ==
        RatPow(RatAdd(RatOfNat(1), healthcareInflation), yearsFromBase)
      workingAgePop == SumTotalsOfBand(population, 1, n, "working",
                                       retirementAge)
      avgSalary  == RatMul(baseAvgSalary, wageInflationFactor)
      avgPension == RatMul(baseAvgPension, wageInflationFactor)
      totalHealthcareCost ==
        RatMul(RatMul(RatOfFrac(SumMultiplied(population, 1, n),
                                MultiplierDen),
                      baseHealthcareCost),
               healthcareInflationFactor)
      publicHealthcareCost == RatMul(totalHealthcareCost, publicShare)
  IN  CHOOSE metrics \in
        {LET totalSSContributions ==
               RatMul(RatMul(RatOfNat(actualWorkforce), avgSalary),
                      ssContributionRate)
             totalPensionPayments ==
               RatMul(RatOfNat(actualPensioners), avgPension)
             ssBalance == RatSub(totalSSContributions, totalPensionPayments)
             ssDeficit == RatMax(RatOfNat(0), RatNeg(ssBalance))
             totalFiscalBurden == RatAdd(ssDeficit, publicHealthcareCost)
             gdpProxy ==
               RatMul(RatMul(RatOfNat(actualWorkforce),
                             RatOfNat(gdpPerWorker2024)),
                      wageInflationFactor)
         IN  [actualWorkforce         |-> actualWorkforce,
              laborUtilizationRate    |->
                LaborUtilizationRate(actualWorkforce, workingAgePop),
              totalSSContributions    |-> totalSSContributions,
              totalPensionPayments    |-> totalPensionPayments,
              ssBalance               |-> ssBalance,
              ssBalancePerWorker      |->
                PerWorker(ssBalance, actualWorkforce),
              totalHealthcareCost     |-> totalHealthcareCost,
              publicHealthcareCost    |-> publicHealthcareCost,
              healthcareCostPerWorker |->
                PerWorker(totalHealthcareCost, actualWorkforce),
              totalBurdenPerWorker    |->
                PerWorker(totalFiscalBurden, actualWorkforce),
              sustainabilityIndex     |->
                SustainabilityIndex(totalFiscalBurden, gdpProxy)] :
           actualWorkforce \in
             {MathRound(SumShares(population, 1, n, DoubleZero, "workforce",
                                  retirementAge, workforceEntryAgeShift,
                                  unemploymentAdjustment))},
           actualPensioners \in
             {MathRound(SumShares(population, 1, n, DoubleZero, "pensioners",
                                  retirementAge, workforceEntryAgeShift,
                                  unemploymentAdjustment))}} : TRUE

----------------------------------------------------------------------------
(* Projection driver: the Year Record *)

\* Position of the first cohort at which the running total reaches half of
\* the population; 0 if the population has no cohort.
MedianIndex(pop, totalPop) ==
  LET reached(i) == 2 * SumTotalsOfBand(pop, 1, i, "all", 0) >= totalPop
  IN  IF pop = <<>> THEN 0
      ELSE CHOOSE i \in 1..Len(pop) :
             reached(i) /\ \A j \in 1..(i - 1) : ~reached(j)

\* medianAge: the age of that cohort plus the fraction of the cohort below
\* the half, 0 for an empty cohort.
MedianAge(pop, totalPop) ==
  LET i == MedianIndex(pop, totalPop)
  IN  IF i = 0 THEN RatOfNat(0)
      ELSE LET prev == SumTotalsOfBand(pop, 1, i - 1, "all", 0)
           IN  IF pop[i].total > 0
               THEN RatAdd(RatOfNat(pop[i].age),
                           RatOfFrac(totalPop - 2 * prev, 2 * pop[i].total))
               ELSE RatOfNat(pop[i].age)

\* Variant: the ratio is left as a fraction, not a percentage.
OldAgeDependencyRatioAsFraction(retiredPop, workingPop) ==
  IF workingPop > 0
  THEN RatOfFrac(retiredPop, workingPop)
  ELSE RatOfNat(0)

\* workingPop > 0 ? (retiredPop / workingPop) * 100 : 0
OldAgeDependencyRatio(retiredPop, workingPop) ==
  IF workingPop > 0
  THEN RatMul(RatOfFrac(retiredPop, workingPop), RatOfNat(100))
  ELSE RatOfNat(0)

\* Variant: the economic metrics are computed for the offset of the year
\* after.
YearRecordOfNextOffset(y, yearsFromBase, pop, p) ==
  LET childPop   == ChildPop(pop)
      workingPop == WorkingPop(pop, p.retirementAge)
      retiredPop == RetiredPop(pop, p.retirementAge)
      totalPop   == childPop + workingPop + retiredPop
  IN  [year                  |-> y,
       population            |-> pop,
       totalPopulation       |-> totalPop,
       workingAgePop         |-> workingPop,
       retiredPop            |-> retiredPop,
       childPop              |-> childPop,
       oldAgeDependencyRatio |-> OldAgeDependencyRatio(retiredPop, workingPop),
       medianAge             |-> MedianAge(pop, totalPop),
       economic              |->
         calculateEconomicMetrics(pop, p.retirementAge, yearsFromBase + 1,
                                  p.workforceEntryAgeShift,
                                  p.unemploymentAdjustment)]

\* The Year Record pushed for one year.
YearRecord(y, yearsFromBase, pop, p) ==
  LET childPop   == ChildPop(pop)
      workingPop == WorkingPop(pop, p.retirementAge)
      retiredPop == RetiredPop(pop, p.retirementAge)
      totalPop   == childPop + workingPop + retiredPop
  IN  [year                  |-> y,
       population            |-> pop,
       totalPopulation       |-> totalPop,
       workingAgePop         |-> workingPop,
       retiredPop            |-> retiredPop,
       childPop              |-> childPop,
       oldAgeDependencyRatio |-> OldAgeDependencyRatio(retiredPop, workingPop),
       medianAge             |-> MedianAge(pop, totalPop),
       economic              |->
         calculateEconomicMetrics(pop, p.retirementAge, yearsFromBase,
                                  p.workforceEntryAgeShift,
                                  p.unemploymentAdjustment)]

\* Variant: the record of the year replaces the last record.
PushRecordOverwrite(res, rec) ==
  IF res = <<>> THEN <<rec>> ELSE [res EXCEPT ![Len(res)] = rec]

\* results.push(record)
PushRecord(res, rec) == Append(res, rec)

----------------------------------------------------------------------------
(* Cohort evolution step: births *)

\* params.fertilityRate / 1.40
FertilityScale(fertilityRate) ==
  DoubleDiv(DoubleOfDecimal(fertilityRate, FertilityDen),
            DoubleOfDecimal(BaseTFR, FertilityDen))

\* Variant: the whole cohort, men included, is taken for the women.
RECURSIVE TotalBirthsOfTotals(_, _, _, _, _)
TotalBirthsOfTotals(pop, lo, hi, before, fertilityRate) ==
  IF lo > hi THEN before
  ELSE IF lo = hi
  THEN (IF pop[lo].age >= 15 /\ pop[lo].age <= 49
        THEN DoubleAdd(before,
               DoubleMul(DoubleOfInt(pop[lo].total),
                         DoubleMul(getFertilityRate(pop[lo].age),
                                   FertilityScale(fertilityRate))))
        ELSE before)
  ELSE CHOOSE sum \in
         {TotalBirthsOfTotals(pop, ((lo + hi) \div 2) + 1, hi, half,
                              fertilityRate) :
            half \in {TotalBirthsOfTotals(pop, lo, (lo + hi) \div 2, before,
                                          fertilityRate)}} : TRUE

\* totalBirths after the cohorts lo..hi of pop, taken in the order of pop,
\* from its value before them: for a cohort aged 15..49,
\* totalBirths += group.female * scaledASFR.
RECURSIVE TotalBirths(_, _, _, _, _)
TotalBirths(pop, lo, hi, before, fertilityRate) ==
  IF lo > hi THEN before
  ELSE IF lo = hi
  THEN (IF pop[lo].age >= 15 /\ pop[lo].age <= 49
        THEN DoubleAdd(before,
               DoubleMul(DoubleOfInt(pop[lo].female),
                         DoubleMul(getFertilityRate(pop[lo].age),
                                   FertilityScale(fertilityRate))))
        ELSE before)
  ELSE CHOOSE sum \in
         {TotalBirths(pop, ((lo + hi) \div 2) + 1, hi, half, fertilityRate) :
            half \in {TotalBirths(pop, lo, (lo + hi) \div 2, before,
                                  fertilityRate)}} : TRUE

\* Variant: the births of the unscaled fertility schedule, whatever the
\* requested fertility rate.
BirthsAtBaseSchedule(pop, p) ==
  MathRound(TotalBirths(pop, 1, Len(pop), DoubleZero, BaseTFR))

\* Variant: the births fall with the unemployment adjustment.
BirthsLessUnemployment(pop, p) ==
  (MathRound(TotalBirths(pop, 1, Len(pop), DoubleZero, p.fertilityRate))
     * (UnemploymentDen - p.unemploymentAdjustment)) \div UnemploymentDen

\* births = Math.round(totalBirths)
Births(pop, p) ==
  MathRound(TotalBirths(pop, 1, Len(pop), DoubleZero, p.fertilityRate))

\* fertilityData.sexRatioAtBirth.ratio
SexRatioAtBirth == DoubleOfDecimal(SexRatioAtBirthNum, SexRatioAtBirthDen)

\* Variant: the girls are floored on their own share as the boys are.
NewbornCohortBothFloored(b) ==
  CHOOSE newborn \in
    {[age    |-> 0,
      male   |-> MathFloor(DoubleMul(DoubleOfInt(b),
                   DoubleDiv(sexRatio, DoubleAdd(DoubleOne, sexRatio)))),
      female |-> MathFloor(DoubleMul(DoubleOfInt(b),
                   DoubleDiv(DoubleOne, DoubleAdd(DoubleOne, sexRatio)))),
      total  |-> b] :
       sexRatio \in {SexRatioAtBirth}} : TRUE

\* The age-0 cohort: Math.floor(births * (sexRatio / (1 + sexRatio))) boys,
\* the rest girls.
NewbornCohort(b) ==
  CHOOSE newborn \in
    {[age |-> 0, male |-> maleBirths, female |-> b - maleBirths,
      total |-> b] :
       maleBirths \in
         {MathFloor(DoubleMul(DoubleOfInt(b),
                      DoubleDiv(sexRatio,
                                DoubleAdd(DoubleOne, sexRatio)))) :
            sexRatio \in {SexRatioAtBirth}}} : TRUE

----------------------------------------------------------------------------
(* Cohort evolution step: migration pre-allocation *)

\* migrationData.sexRatio.ratio
MigrationSexRatio == DoubleOfDecimal(MigrationSexRatioNum, MigrationSexRatioDen)

\* totalMaleMigration = netMigration * ratio and
\* totalFemaleMigration = netMigration * (1 - ratio)
TotalMigration(netMigration, sex) ==
  IF sex = "male"
  THEN DoubleMul(DoubleOfInt(netMigration), MigrationSexRatio)
  ELSE DoubleMul(DoubleOfInt(netMigration),
                 DoubleSub(DoubleOne, MigrationSexRatio))

\* exactMigration = total migration of the sex * weight of the age + carry
ExactMigration(netMigration, age, sex, carry) ==
  DoubleAdd(DoubleMul(TotalMigration(netMigration, sex),
                      getMigrationWeight(age, sex)),
            carry)

\* Variant: the exact allotment is rounded to the nearest integer instead of
\* floored.
AllotRound(exact) ==
  [exact     |-> exact,
   migration |-> MathRound(exact),
   carry     |-> DoubleSub(exact, DoubleOfInt(MathRound(exact)))]

\* One sex of one iteration of the pre-allocation loop: the exact allotment,
\* the migrants given to the age (its floor) and the carry left.
AllotFloor(exact) ==
  [exact     |-> exact,
   migration |-> MathFloor(exact),
   carry     |-> DoubleSub(exact, DoubleOfInt(MathFloor(exact)))]

\* One iteration of the pre-allocation loop; acc holds migrationByAge, both
\* carries and totalMigrationDistributed.
PreAllocateStep(group, netMigration, acc) ==
  IF group.age >= 100
  THEN [acc EXCEPT !.byAge = Append(@, [age |-> group.age,
                                        male |-> 0, female |-> 0])]
  ELSE CHOOSE next \in
         {[byAge       |-> Append(acc.byAge,
                             [age |-> group.age, male |-> m.migration,
                              female |-> f.migration]),
           maleCarry   |-> m.carry,
           femaleCarry |-> f.carry,
           distributed |-> acc.distributed + m.migration + f.migration] :
            m \in {AllotFloor(ExactMigration(netMigration, group.age, "male",
                                             acc.maleCarry))},
            f \in {AllotFloor(ExactMigration(netMigration, group.age,
                                             "female", acc.femaleCarry))}} :
         TRUE

\* migrationByAge.findIndex(m => m.age === age), 0 when there is none.
FindAge(byAge, age) ==
  IF \E i \in 1..Len(byAge) : byAge[i].age = age
  THEN CHOOSE i \in 1..Len(byAge) :
         /\ byAge[i].age = age
         /\ \A j \in 1..(i - 1) : byAge[j].age # age
  ELSE 0

----------------------------------------------------------------------------
(* Cohort evolution step: mortality, ageing and the terminal aggregate *)

\* Variant: the count is not clamped at zero.
SurvivingCountUnclamped(population, deaths) == population - deaths

\* Math.max(0, population - deaths)
SurvivingCount(population, deaths) == Max(0, population - deaths)

\* Math.round(population * qx + deathCarry), the carry being 0
DeathsOf(population, qx) ==
  MathRound(DoubleMul(DoubleOfInt(population), qx))

\* Math.round(migration * (1 - Math.sqrt(1 - qx))): the migrants arrive
\* mid-year on average and bear the half-year probability.
MigrantDeathsOf(migration, qx) ==
  MathRound(DoubleMul(DoubleOfInt(migration),
                      DoubleSub(DoubleOne,
                                DoubleSqrt(DoubleSub(DoubleOne, qx)))))

\* Variant: the migrants join the cohort and the full-year share is the only
\* loss.
RegularCohortSexFullYearOnly(count, migration, qx) ==
  LET populationAfterMigration == count + migration
      deaths == DeathsOf(populationAfterMigration, qx)
  IN  [surviving |-> SurvivingCount(populationAfterMigration, deaths),
       deaths    |-> deaths]

\* One sex of one non-terminal cohort: migrants join first, lose the
\* half-year share, then the cohort loses the full-year share.
RegularCohortSex(count, migration, qx) ==
  CHOOSE result \in
    {LET populationAfterMigration == count + migration - migrantDeaths
         deaths == DeathsOf(populationAfterMigration, qx)
     IN  [surviving |-> SurvivingCount(populationAfterMigration, deaths),
          deaths    |-> deaths + migrantDeaths] :
       migrantDeaths \in {MigrantDeathsOf(migration, qx)}} : TRUE

\* Variant: nobody of the age-100 cohort dies.
TerminalCohortSexImmortal(count, qx) ==
  [surviving |-> count, deaths |-> 0]

\* One sex of the age-100 cohort: no migrants, the age-100 probability.
TerminalCohortSex(count, qx) ==
  LET deaths == DeathsOf(count, qx)
  IN  [surviving |-> SurvivingCount(count, deaths), deaths |-> deaths]

\* Variant: the survivors keep their age.
AgedForwardStays(age) == age

\* Age of the next-year cohort a surviving cohort is pushed as.
AgedForward(age) == age + 1

\* Variant: a death carry hoisted to loop scope, so that the odd death
\* left over by the cohorts before is taken from the men of this one.
AgeCohortStepSharedCarry(group, migration, yearsFromBase, p, acc) ==
  LET carried == acc.totalDeaths % 2
      men == IF group.male >= carried THEN group.male - carried
             ELSE group.male
  IN  CHOOSE next \in
        {IF group.age >= 99
         THEN [acc EXCEPT !.totalDeaths =
                            @ + m.deaths + f.deaths + (group.male - men),
                          !.age100Male = @ + m.surviving,
                          !.age100Female = @ + f.surviving]
         ELSE [acc EXCEPT !.totalDeaths =
                            @ + m.deaths + f.deaths + (group.male - men),
                          !.nextPop =
                            Append(@, [age    |-> AgedForward(group.age),
                                       male   |-> m.surviving,
                                       female |-> f.surviving,
                                       total  |-> m.surviving + f.surviving])] :
           m \in {IF group.age >= 100 THEN TerminalCohortSex(men, qxm)
                  ELSE RegularCohortSex(men, migration.male, qxm) :
                    qxm \in {getMortalityRate(Min(group.age, 100), "male",
                               yearsFromBase, p.mortalityImprovement)}},
           f \in {IF group.age >= 100
                  THEN TerminalCohortSex(group.female, qxf)
                  ELSE RegularCohortSex(group.female, migration.female,
                                        qxf) :
                    qxf \in {getMortalityRate(Min(group.age, 100), "female",
                               yearsFromBase, p.mortalityImprovement)}}} :
        TRUE

\* One iteration of the ageing loop; acc holds nextPop, the age-100
\* accumulators and totalDeaths.
AgeCohortStep(group, migration, yearsFromBase, p, acc) ==
  IF group.age >= 100
  THEN CHOOSE next \in
         {[acc EXCEPT !.totalDeaths = @ + m.deaths + f.deaths,
                      !.age100Male = @ + m.surviving,
                      !.age100Female = @ + f.surviving] :
            m \in {TerminalCohortSex(group.male,
                     getMortalityRate(100, "male", yearsFromBase,
                                      p.mortalityImprovement))},
            f \in {TerminalCohortSex(group.female,
                     getMortalityRate(100, "female", yearsFromBase,
                                      p.mortalityImprovement))}} : TRUE
  ELSE CHOOSE next \in
         {IF group.age = 99
          THEN [acc EXCEPT !.totalDeaths = @ + m.deaths + f.deaths,
                           !.age100Male = @ + m.surviving,
                           !.age100Female = @ + f.surviving]
          ELSE [acc EXCEPT !.totalDeaths = @ + m.deaths + f.deaths,
                           !.nextPop =
                             Append(@, [age    |-> AgedForward(group.age),
                                        male   |-> m.surviving,
                                        female |-> f.surviving,
                                        total  |-> m.surviving
                                                     + f.surviving])] :
            m \in {RegularCohortSex(group.male, migration.male,
                     getMortalityRate(group.age, "male", yearsFromBase,
                                      p.mortalityImprovement))},
            f \in {RegularCohortSex(group.female, migration.female,
                     getMortalityRate(group.age, "female", yearsFromBase,
                                      p.mortalityImprovement))}} : TRUE

\* Tolerance of the population balance check.
BalanceTolerance == 500

Abs(x) == IF x < 0 THEN -x ELSE x

----------------------------------------------------------------------------
(* Inputs *)

\* The parameters the application starts with (App.tsx).
BaselineParams ==
  [retirementAge          |-> 66,
   fertilityRate          |-> 140,
   netMigration           |-> 110000,
   mortalityImprovement   |-> [male |-> 10, female |-> 8],
   workforceEntryAgeShift |-> 0,
   unemploymentAdjustment |-> 0]

\* Values just outside the validated domains.
FertilitySamples    == {-1, 1001}
RetirementSamples   == {49, 81}
MigrationSamples    == {-500001, 500001}
ImprovementSamples  == {-51, 51}

\* Values of the two parameters that are not validated, inside and outside
\* the ranges the control surface documents.
EntryShiftSamples   == {-4, 6}
UnemploymentSamples == {-11, 16}

\* The baseline with one validated parameter outside its domain.
InvalidSamples ==
  {[BaselineParams EXCEPT !.fertilityRate = v] : v \in FertilitySamples}
  \cup {[BaselineParams EXCEPT !.retirementAge = v] : v \in RetirementSamples}
  \cup {[BaselineParams EXCEPT !.netMigration = v] : v \in MigrationSamples}
  \cup {[BaselineParams EXCEPT !.mortalityImprovement.male = v] :
          v \in ImprovementSamples}
  \cup {[BaselineParams EXCEPT !.mortalityImprovement.female = v] :
          v \in ImprovementSamples}

\* Valid parameter sets run for one year: the baseline with one economic
\* parameter varied, with the fertility rate at its upper bound, and with a
\* net migration whose shares of the first ages are whole numbers.
OneYearSamples ==
  {[BaselineParams EXCEPT !.workforceEntryAgeShift = v] :
     v \in EntryShiftSamples}
  \cup {[BaselineParams EXCEPT !.unemploymentAdjustment = v] :
          v \in UnemploymentSamples}
  \cup {[BaselineParams EXCEPT !.retirementAge = 50],
        [BaselineParams EXCEPT !.fertilityRate = 1000],
        [BaselineParams EXCEPT !.netMigration = 21075]}

\* Valid parameter sets run for two years: heavy and light emigration, and
\* the latest retirement age.
TwoYearSamples ==
  {[BaselineParams EXCEPT !.netMigration = -110000],
   [BaselineParams EXCEPT !.netMigration = -2999],
   [BaselineParams EXCEPT !.retirementAge = 80]}

\* Valid parameter sets run as long as the baseline: no births and no
\* migration under constant mortality; below-replacement fertility without
\* migration, mortality worsening for men and improving for women as fast as
\* allowed; light immigration under constant mortality; mortality improving
\* at rates whose third power the runtime does not round to the nearest
\* double.
LongSamples ==
  {BaselineParams,
   [BaselineParams EXCEPT !.fertilityRate = 0, !.netMigration = 0,
                          !.mortalityImprovement =
                             [male |-> 0, female |-> 0]],
   [BaselineParams EXCEPT !.fertilityRate = 100, !.netMigration = 0,
                          !.mortalityImprovement =
                             [male |-> -50, female |-> 50]],
   [BaselineParams EXCEPT !.netMigration = 3227,
                          !.mortalityImprovement =
                             [male |-> 0, female |-> 0]],
   [BaselineParams EXCEPT !.mortalityImprovement =
                             [male |-> 22, female |-> 23]]}

\* The runs: a parameter set and the last year asked for.
Scenarios ==
  {[params |-> p, endYear |-> START_YEAR] :
     p \in InvalidSamples \cup OneYearSamples \cup {BaselineParams}}
  \cup {[params |-> p, endYear |-> START_YEAR + 1] : p \in TwoYearSamples}
  \cup {[params |-> p, endYear |-> START_YEAR + MaxYears - 1] :
          p \in LongSamples}
  \cup {[params |-> BaselineParams, endYear |-> START_YEAR - 1]}

\* A population in decline: no migration, one child per woman, the mortality
\* of the women improving as fast as allowed, so that women keep reaching
\* the oldest ages throughout the run.
DeclineParams ==
  [BaselineParams EXCEPT !.fertilityRate = 100, !.netMigration = 0,
                         !.mortalityImprovement = [male |-> 0, female |-> 50]]

\* The same decline with the mortality of neither sex improving.
SteadyDeclineParams ==
  [DeclineParams EXCEPT !.mortalityImprovement = [male |-> 0, female |-> 0]]

\* The long runs: the two declining populations over HorizonYears years.
HorizonScenarios ==
  {[params |-> p, endYear |-> START_YEAR + HorizonYears] :
     p \in {DeclineParams, SteadyDeclineParams}}

----------------------------------------------------------------------------
(* The run as a state machine *)

VARIABLES
  pc,            \* "Validating", "Running" (loop head), the steps of one
                 \* iteration, "Complete" or "Failed"
  startYear, endYear, params,      \* the arguments of runSimulation
  error,         \* message of the error thrown, "" if none
  year,          \* loop variable
  currentPop,    \* current snapshot, <<>> before it is seeded
  results,       \* Year Records pushed so far
  totalPop,      \* total population of the current year
  births,
  nextPop,       \* snapshot under construction
  migrationByAge,
  maleMigrationCarry, femaleMigrationCarry,
  age100Male, age100Female,
  totalDeaths, totalMigrationDistributed,
  idx,           \* position in currentPop of the loops over the cohorts
  warnings,      \* years for which the balance warning was logged
  call,          \* the function applied and its arguments
  returned,      \* whether a rate function or the calculator has returned
  value,         \* what it returned
  runA, runB     \* two evolutions carried out side by side

vars == <<pc, startYear, endYear, params, error, year, currentPop, results,
          totalPop, births, nextPop, migrationByAge, maleMigrationCarry,
          femaleMigrationCarry, age100Male, age100Female, totalDeaths,
          totalMigrationDistributed, idx, warnings, call, returned, value,
          runA, runB>>

calls == <<call, returned, value>>

pair == <<runA, runB>>

args == <<startYear, endYear, params>>

locals == <<totalPop, births, nextPop, migrationByAge, maleMigrationCarry,
            femaleMigrationCarry, age100Male, age100Female, totalDeaths,
            totalMigrationDistributed, idx>>

\* The state in which runSimulation is entered with one of the given runs.
Entered(runs) ==
  /\ pc = "Validating"
  /\ startYear = START_YEAR
  /\ \E s \in runs : params = s.params /\ endYear = s.endYear
  /\ error = ""
  /\ year = 0
  /\ currentPop = <<>>
  /\ results = <<>>
  /\ totalPop = 0
  /\ births = 0
  /\ nextPop = <<>>
  /\ migrationByAge = <<>>
  /\ maleMigrationCarry = DoubleZero
  /\ femaleMigrationCarry = DoubleZero
  /\ age100Male = 0
  /\ age100Female = 0
  /\ totalDeaths = 0
  /\ totalMigrationDistributed = 0
  /\ idx = 1
  /\ warnings = <<>>
  /\ call = [fn |-> "runSimulation"]
  /\ returned = FALSE
  /\ value = <<>>
  /\ runA = <<>>
  /\ runB = <<>>

Init == Entered(Scenarios)

\* Variant: the baseline snapshot is seeded before the parameters are checked.
ValidateSeedsFirst ==
  /\ pc = "Validating"
  /\ error' = ValidationError(params)
  /\ currentPop' = generateInitialData
  /\ IF error' # ""
     THEN /\ pc' = "Failed"
          /\ UNCHANGED <<year, results>>
     ELSE /\ pc' = "Running"
          /\ results' = <<>>
          /\ year' = startYear
  /\ UNCHANGED <<args, calls, pair, locals, warnings>>

\* Parameter validation; on success the snapshot is seeded and the loop
\* variable initialised.
Validate ==
  /\ pc = "Validating"
  /\ error' = ValidationError(params)
  /\ IF error' # ""
     THEN /\ pc' = "Failed"
          /\ UNCHANGED <<year, currentPop, results>>
     ELSE /\ pc' = "Running"
          /\ currentPop' = generateInitialData
          /\ results' = <<>>
          /\ year' = startYear
  /\ UNCHANGED <<args, calls, pair, locals, warnings>>

\* Variant: the loop stops one year early.
LoopStopsEarly(y, lastYear) == y < lastYear

\* The condition of the year loop.
LoopContinues(y, lastYear) == y <= lastYear

\* Loop body, first half: statistics of the current year, record pushed.
RecordYear ==
  /\ pc = "Running"
  /\ LoopContinues(year, endYear)
  /\ \E rec \in {YearRecord(year, year - startYear, currentPop, params)} :
       /\ totalPop' = rec.totalPopulation
       /\ results' = PushRecord(results, rec)
  /\ pc' = "Births"
  /\ UNCHANGED <<args, calls, pair, error, year, currentPop, births, nextPop,
                 migrationByAge, maleMigrationCarry, femaleMigrationCarry,
                 age100Male, age100Female, totalDeaths,
                 totalMigrationDistributed, idx, warnings>>

\* Births and the age-0 cohort; the accumulators of the iteration start at 0.
ComputeBirths ==
  /\ pc = "Births"
  /\ births' = Births(currentPop, params)
  /\ nextPop' = <<NewbornCohort(births')>>
  /\ maleMigrationCarry' = DoubleZero
  /\ femaleMigrationCarry' = DoubleZero
  /\ age100Male' = 0
  /\ age100Female' = 0
  /\ totalDeaths' = 0
  /\ totalMigrationDistributed' = 0
  /\ migrationByAge' = <<>>
  /\ idx' = 1
  /\ pc' = "Migration"
  /\ UNCHANGED <<args, calls, pair, error, year, currentPop, results, totalPop, warnings>>

\* One iteration of the migration pre-allocation loop, for the cohort at
\* position idx; after the last cohort the loop is left.
PreAllocateMigration ==
  /\ pc = "Migration"
  /\ idx <= Len(currentPop)
  /\ \E r \in {PreAllocateStep(currentPop[idx], params.netMigration,
                 [byAge |-> migrationByAge, maleCarry |-> maleMigrationCarry,
                  femaleCarry |-> femaleMigrationCarry,
                  distributed |-> totalMigrationDistributed])} :
       /\ migrationByAge' = r.byAge
       /\ maleMigrationCarry' = r.maleCarry
       /\ femaleMigrationCarry' = r.femaleCarry
       /\ totalMigrationDistributed' = r.distributed
  /\ idx' = idx + 1
  /\ pc' = IF idx = Len(currentPop) THEN "Leftover" ELSE "Migration"
  /\ UNCHANGED <<args, calls, pair, error, year, currentPop, results, totalPop, births,
                 nextPop, age100Male, age100Female, totalDeaths, warnings>>

\* The rounded leftover carry goes to the age-99 entry.
ApplyLeftoverCarry ==
  /\ pc = "Leftover"
  /\ LET finalMaleMigration   == MathRound(maleMigrationCarry)
         finalFemaleMigration == MathRound(femaleMigrationCarry)
         age99Idx == FindAge(migrationByAge, 99)
     IN  IF (finalMaleMigration # 0 \/ finalFemaleMigration # 0)
            /\ age99Idx > 0
         THEN /\ migrationByAge' =
                   [migrationByAge EXCEPT
                      ![age99Idx].male = @ + finalMaleMigration,
                      ![age99Idx].female = @ + finalFemaleMigration]
              /\ totalMigrationDistributed' =
                   totalMigrationDistributed + finalMaleMigration
                     + finalFemaleMigration
         ELSE UNCHANGED <<migrationByAge, totalMigrationDistributed>>
  /\ idx' = 1
  /\ pc' = "Aging"
  /\ UNCHANGED <<args, calls, pair, error, year, currentPop, results, totalPop, births,
                 nextPop, maleMigrationCarry, femaleMigrationCarry,
                 age100Male, age100Female, totalDeaths, warnings>>

\* One iteration of the mortality and ageing loop, for the cohort at
\* position idx; after the last cohort the loop is left.
AgeCohorts ==
  /\ pc = "Aging"
  /\ idx <= Len(currentPop)
  /\ \E r \in {AgeCohortStep(currentPop[idx], migrationByAge[idx],
                 year - startYear, params,
                 [nextPop |-> nextPop, age100Male |-> age100Male,
                  age100Female |-> age100Female,
                  totalDeaths |-> totalDeaths])} :
       /\ nextPop' = r.nextPop
       /\ age100Male' = r.age100Male
       /\ age100Female' = r.age100Female
       /\ totalDeaths' = r.totalDeaths
  /\ idx' = idx + 1
  /\ pc' = IF idx = Len(currentPop) THEN "Terminal" ELSE "Aging"
  /\ UNCHANGED <<args, calls, pair, error, year, currentPop, results, totalPop, births,
                 migrationByAge, maleMigrationCarry, femaleMigrationCarry,
                 totalMigrationDistributed, warnings>>

\* The age-100 aggregate is pushed if it has any member.
PushTerminalAggregate ==
  /\ pc = "Terminal"
  /\ nextPop' = IF age100Male + age100Female > 0
                THEN Append(nextPop, [age    |-> 100,
                                      male   |-> age100Male,
                                      female |-> age100Female,
                                      total  |-> age100Male + age100Female])
                ELSE nextPop
  /\ pc' = "Balance"
  /\ UNCHANGED <<args, calls, pair, error, year, currentPop, results, totalPop, births,
                 migrationByAge, maleMigrationCarry, femaleMigrationCarry,
                 age100Male, age100Female, totalDeaths,
                 totalMigrationDistributed, idx, warnings>>

\* Population balance of the step just made.
BalanceError ==
  Abs(SumTotals(nextPop)
      - (totalPop + births - totalDeaths + totalMigrationDistributed))

\* Variant: a discrepancy above the tolerance ends the run.
AfterBalanceCheckAborts(balanceError) ==
  IF balanceError > BalanceTolerance THEN "Failed" ELSE "Running"

\* Where the run goes after the balance check: console.warn neither throws
\* nor leaves the loop, so the loop head is next whatever the discrepancy.
AfterBalanceCheck(balanceError) == "Running"

\* Balance check (a warning only); the new snapshot becomes current and the
\* loop variable advances.
CheckBalance ==
  /\ pc = "Balance"
  /\ warnings' = IF BalanceError > BalanceTolerance
                 THEN Append(warnings, year) ELSE warnings
  /\ currentPop' = nextPop
  /\ year' = year + 1
  /\ pc' = AfterBalanceCheck(BalanceError)
  /\ UNCHANGED <<args, calls, pair, error, results, locals>>

\* Loop exit: the results are returned.
Return ==
  /\ pc = "Running"
  /\ ~LoopContinues(year, endYear)
  /\ pc' = "Complete"
  /\ UNCHANGED <<args, calls, pair, error, year, currentPop, results, locals, warnings>>

Next ==
  \/ Validate
  \/ RecordYear
  \/ ComputeBirths
  \/ PreAllocateMigration
  \/ ApplyLeftoverCarry
  \/ AgeCohorts
  \/ PushTerminalAggregate
  \/ CheckBalance
  \/ Return

Spec == Init /\ [][Next]_vars

\* The iterations of the migration pre-allocation loop for the cohorts at
\* positions lo..hi, in order, from the accumulators acc.
RECURSIVE PreAllocateRange(_, _, _, _, _)
PreAllocateRange(pop, netMigration, lo, hi, acc) ==
  IF lo > hi THEN acc
  ELSE IF lo = hi THEN PreAllocateStep(pop[lo], netMigration, acc)
  ELSE CHOOSE after \in
         {PreAllocateRange(pop, netMigration, ((lo + hi) \div 2) + 1, hi,
                           half) :
            half \in {PreAllocateRange(pop, netMigration, lo,
                                       (lo + hi) \div 2, acc)}} : TRUE

\* The iterations of the mortality and ageing loop for the cohorts at
\* positions lo..hi, in order, from the accumulators acc.
RECURSIVE AgeCohortRange(_, _, _, _, _, _, _)
AgeCohortRange(pop, byAge, yearsFromBase, p, lo, hi, acc) ==
  IF lo > hi THEN acc
  ELSE IF lo = hi
  THEN AgeCohortStep(pop[lo], byAge[lo], yearsFromBase, p, acc)
  ELSE CHOOSE after \in
         {AgeCohortRange(pop, byAge, yearsFromBase, p,
                         ((lo + hi) \div 2) + 1, hi, half) :
            half \in {AgeCohortRange(pop, byAge, yearsFromBase, p, lo,
                                     (lo + hi) \div 2, acc)}} : TRUE

\* The migration pre-allocation loop from its first iteration to its last.
PreAllocateMigrationLoop ==
  /\ pc = "Migration"
  /\ \E r \in {PreAllocateRange(currentPop, params.netMigration,
                 idx, Len(currentPop),
                 [byAge |-> migrationByAge, maleCarry |-> maleMigrationCarry,
                  femaleCarry |-> femaleMigrationCarry,
                  distributed |-> totalMigrationDistributed])} :
       /\ migrationByAge' = r.byAge
       /\ maleMigrationCarry' = r.maleCarry
       /\ femaleMigrationCarry' = r.femaleCarry
       /\ totalMigrationDistributed' = r.distributed
  /\ idx' = Len(currentPop) + 1
  /\ pc' = "Leftover"
  /\ UNCHANGED <<args, calls, pair, error, year, currentPop, results, totalPop, births,
                 nextPop, age100Male, age100Female, totalDeaths, warnings>>

\* The mortality and ageing loop from its first iteration to its last.
AgeCohortsLoop ==
  /\ pc = "Aging"
  /\ \E r \in {AgeCohortRange(currentPop, migrationByAge, year - startYear,
                 params, idx, Len(currentPop),
                 [nextPop |-> nextPop, age100Male |-> age100Male,
                  age100Female |-> age100Female,
                  totalDeaths |-> totalDeaths])} :
       /\ nextPop' = r.nextPop
       /\ age100Male' = r.age100Male
       /\ age100Female' = r.age100Female
       /\ totalDeaths' = r.totalDeaths
  /\ idx' = Len(currentPop) + 1
  /\ pc' = "Terminal"
  /\ UNCHANGED <<args, calls, pair, error, year, currentPop, results, totalPop, births,
                 migrationByAge, maleMigrationCarry, femaleMigrationCarry,
                 totalMigrationDistributed, warnings>>

\* The program with each of the two loops over the cohorts as one step.
HorizonNext ==
  \/ Validate
  \/ RecordYear
  \/ ComputeBirths
  \/ PreAllocateMigrationLoop
  \/ ApplyLeftoverCarry
  \/ AgeCohortsLoop
  \/ PushTerminalAggregate
  \/ CheckBalance
  \/ Return

\* The same program over the long runs.
HorizonInit == Entered(HorizonScenarios)

HorizonSpec == HorizonInit /\ [][HorizonNext]_vars

----------------------------------------------------------------------------
(* The rate functions and the calculator applied on their own *)

\* A snapshot of ages 0..100 with the same total in every cohort of a band:
\* children (under 15), adults (15..64) and elders (65 and over).
BandSnapshot(children, adults, elders) ==
  [i \in 1..101 |->
     LET age == i - 1
         t   == IF age < 15 THEN children
                ELSE IF age < 65 THEN adults ELSE elders
     IN  [age |-> age, male |-> t \div 2, female |-> t - (t \div 2),
          total |-> t]]

CohortTotalSamples == {0, 7}

\* The snapshot with the men and the women of one age replaced.
WithCohort(pop, age, males, females) ==
  [i \in 1..Len(pop) |->
     IF pop[i].age = age
     THEN [age |-> age, male |-> males, female |-> females,
           total |-> males + females]
     ELSE pop[i]]

\* The baseline, the banded snapshots, and the baseline with a cohort whose
\* share of workers or of pensioners lies within a rounding error of a half.
SnapshotSamples ==
  {generateInitialData}
  \cup {BandSnapshot(c, a, e) : c \in CohortTotalSamples,
                                a \in CohortTotalSamples,
                                e \in CohortTotalSamples}
  \cup {WithCohort(generateInitialData, 30, 125, 126),
        WithCohort(generateInitialData, 67, 100, 101)}

EntryShiftInputs   == {-4, 0, 6}
UnemploymentInputs == {-100, -11, 0, 5, 16, 100, 150}

\* The ages of the cohorts of a snapshot: the ages a run applies the rate
\* functions to.
CohortAges == 0..100

\* Ages outside the tables, which no run passes to the rate functions.
OutOfRangeAges == {-1, 101, 110}

RateAges == CohortAges \cup OutOfRangeAges

\* The first age of each stretch of ages with one value in the life table.
TableSteps == {0, 40, 60, 70, 80, 90, 98, 99, 100}

\* Elapsed years of a run of the application: the first ones, later ones
\* and the last.
YearSteps ==
  {0, 1, 2, 3, MaxYears, 5, 12, 17, 25, 40, HorizonYears,
   END_YEAR - START_YEAR}

\* Every elapsed-year offset of a run of the application.
RunOffsets == 0..(END_YEAR - START_YEAR)

\* Improvement rates, in thousandths: the bounds of the valid domain, the
\* rates next to them, the application's defaults and rates in between.
RateSteps == {-50, -49, -20, -1, 0, 1, 8, 10, 22, 23, 34, 49, 50}

\* The life-table lookup as a run makes it: every age with the first
\* elapsed years and a few pairs of rates; the ages at which the table
\* changes with the elapsed years and rates above; the youngest and the
\* oldest improved age with every offset of a run, for the application's
\* default rates and the two bounds of the valid domain.  The calls for the
\* ages outside the table are calls no run makes.
MortalityCalls ==
  {[fn |-> "getMortalityRate", age |-> a, sex |-> s, yearsFromBase |-> y,
    mortalityImprovement |-> m] :
     a \in CohortAges, s \in {"male", "female"}, y \in 0..3,
     m \in {BaselineParams.mortalityImprovement,
            [male |-> -50, female |-> 50], [male |-> 22, female |-> 23]}}
  \cup {[fn |-> "getMortalityRate", age |-> a, sex |-> s,
         yearsFromBase |-> y,
         mortalityImprovement |-> [male |-> r, female |-> r]] :
          a \in TableSteps, s \in {"male", "female"}, y \in YearSteps,
          r \in RateSteps}
  \cup {[fn |-> "getMortalityRate", age |-> a, sex |-> s,
         yearsFromBase |-> y, mortalityImprovement |-> m] :
          a \in {0, 99}, s \in {"male", "female"}, y \in RunOffsets,
          m \in {BaselineParams.mortalityImprovement,
                 [male |-> -50, female |-> 50]}}
  \cup {[fn |-> "getMortalityRate", age |-> a, sex |-> s,
         yearsFromBase |-> y, mortalityImprovement |-> m] :
          a \in OutOfRangeAges, s \in {"male", "female"}, y \in {0, 3},
          m \in {BaselineParams.mortalityImprovement,
                 [male |-> 0, female |-> 0]}}

EmploymentCalls ==
  {[fn |-> "getEmploymentRate", age |-> a, workforceEntryAgeShift |-> sh,
    unemploymentAdjustment |-> u] :
     a \in RateAges, sh \in EntryShiftInputs, u \in UnemploymentInputs}

FertilityCalls ==
  {[fn |-> "getFertilityRate", age |-> a] : a \in RateAges}

MigrationWeightCalls ==
  {[fn |-> "getMigrationWeight", age |-> a, sex |-> s] :
     a \in RateAges, s \in {"male", "female"}}

HealthcareCalls ==
  {[fn |-> "getHealthcareMultiplier", age |-> a] : a \in RateAges}

MetricsCalls ==
  {[fn |-> "calculateEconomicMetrics", population |-> pop,
    retirementAge |-> r, yearsFromBase |-> y,
    workforceEntryAgeShift |-> sh, unemploymentAdjustment |-> u] :
     pop \in SnapshotSamples, r \in {50, 66, 80}, y \in {0, MaxYears},
     sh \in {0, 6}, u \in {0, 5, 100}}
  \cup {[fn |-> "calculateEconomicMetrics", population |-> generateInitialData,
         retirementAge |-> r, yearsFromBase |-> y,
         workforceEntryAgeShift |-> 0, unemploymentAdjustment |-> u] :
          r \in {50, 80}, y \in {HorizonYears, END_YEAR - START_YEAR},
          u \in {0, 100}}

FnInit ==
  /\ call \in MortalityCalls \cup EmploymentCalls \cup MetricsCalls
              \cup FertilityCalls \cup MigrationWeightCalls
              \cup HealthcareCalls
  /\ returned = FALSE
  /\ value = <<>>
  /\ pc = "Idle"
  /\ startYear = START_YEAR
  /\ endYear = START_YEAR
  /\ params = BaselineParams
  /\ error = ""
  /\ year = 0
  /\ currentPop = <<>>
  /\ results = <<>>
  /\ totalPop = 0
  /\ births = 0
  /\ nextPop = <<>>
  /\ migrationByAge = <<>>
  /\ maleMigrationCarry = DoubleZero
  /\ femaleMigrationCarry = DoubleZero
  /\ age100Male = 0
  /\ age100Female = 0
  /\ totalDeaths = 0
  /\ totalMigrationDistributed = 0
  /\ idx = 1
  /\ warnings = <<>>
  /\ runA = <<>>
  /\ runB = <<>>

Returns(fn, v) ==
  /\ ~returned
  /\ call.fn = fn
  /\ value' = v
  /\ returned' = TRUE
  /\ UNCHANGED <<pc, args, error, year, currentPop, results, locals,
                 warnings, call, pair>>

CallMortalityRate ==
  Returns("getMortalityRate",
          getMortalityRate(call.age, call.sex, call.yearsFromBase,
                           call.mortalityImprovement))

CallEmploymentRate ==
  Returns("getEmploymentRate",
          getEmploymentRate(call.age, call.workforceEntryAgeShift,
                            call.unemploymentAdjustment))

CallEconomicMetrics ==
  Returns("calculateEconomicMetrics",
          calculateEconomicMetrics(call.population, call.retirementAge,
                                   call.yearsFromBase,
                                   call.workforceEntryAgeShift,
                                   call.unemploymentAdjustment))

CallFertilityRate ==
  Returns("getFertilityRate", getFertilityRate(call.age))

CallMigrationWeight ==
  Returns("getMigrationWeight", getMigrationWeight(call.age, call.sex))

CallHealthcareMultiplier ==
  Returns("getHealthcareMultiplier", getHealthcareMultiplier(call.age))

FnNext ==
  \/ CallMortalityRate
  \/ CallEmploymentRate
  \/ CallEconomicMetrics
  \/ CallFertilityRate
  \/ CallMigrationWeight
  \/ CallHealthcareMultiplier

FnSpec == FnInit /\ [][FnNext]_vars

----------------------------------------------------------------------------
(* Two evolutions side by side *)

\* The state of one evolution: the parameters, the loop variable, the
\* current snapshot, the snapshots recorded so far, the years for which the
\* balance warning was logged and the locals of the iteration: those of the
\* pre-allocation (migrationByAge, both carries, totalMigrationDistributed)
\* and those of the ageing (nextPop, the age-100 accumulators, totalDeaths).
RunAt(pop, p, y) ==
  [pc |-> "Births", params |-> p, year |-> y, currentPop |-> pop,
   snapshots |-> <<pop>>, warnings |-> <<>>, births |-> 0, idx |-> 1,
   allotted |-> [byAge |-> <<>>, maleCarry |-> DoubleZero,
                 femaleCarry |-> DoubleZero, distributed |-> 0],
   aged |-> [nextPop |-> <<>>, age100Male |-> 0, age100Female |-> 0,
             totalDeaths |-> 0]]

\* Births and the reset of the accumulators of the year.
RunBirths(s) ==
  CHOOSE next \in
    {[s EXCEPT !.births = b,
               !.allotted = [byAge |-> <<>>, maleCarry |-> DoubleZero,
                             femaleCarry |-> DoubleZero, distributed |-> 0],
               !.aged = [nextPop |-> <<NewbornCohort(b)>>,
                         age100Male |-> 0, age100Female |-> 0,
                         totalDeaths |-> 0],
               !.idx = 1,
               !.pc = "Migration"] :
       b \in {Births(s.currentPop, s.params)}} : TRUE

\* One iteration of the migration pre-allocation loop.
RunPreAllocate(s) ==
  [s EXCEPT !.allotted = PreAllocateStep(s.currentPop[s.idx],
                                         s.params.netMigration, @),
            !.idx = @ + 1,
            !.pc = IF s.idx = Len(s.currentPop) THEN "Leftover"
                   ELSE "Migration"]

\* The leftover carries, rounded, added to the entry at position age99Idx
\* (to none if both are 0 or there is no such entry).
WithLeftover(acc, finalMaleMigration, finalFemaleMigration, age99Idx) ==
  IF (finalMaleMigration # 0 \/ finalFemaleMigration # 0) /\ age99Idx > 0
  THEN [acc EXCEPT !.byAge[age99Idx].male = @ + finalMaleMigration,
                   !.byAge[age99Idx].female = @ + finalFemaleMigration,
                   !.distributed =
                      @ + finalMaleMigration + finalFemaleMigration]
  ELSE acc

\* The rounded leftover carry goes to the age-99 entry.
RunLeftoverCarry(s) ==
  [s EXCEPT !.allotted = WithLeftover(@, MathRound(@.maleCarry),
                                      MathRound(@.femaleCarry),
                                      FindAge(@.byAge, 99)),
            !.idx = 1,
            !.pc = "Aging"]

\* One iteration of the mortality and ageing loop.
RunAgeCohort(s) ==
  [s EXCEPT !.aged = AgeCohortStep(s.currentPop[s.idx],
                                   s.allotted.byAge[s.idx],
                                   s.year - startYear, s.params, @),
            !.idx = @ + 1,
            !.pc = IF s.idx = Len(s.currentPop) THEN "Terminal"
                   ELSE "Aging"]

\* nextPop with the age-100 aggregate pushed if it has any member.
WithAggregate(acc) ==
  IF acc.age100Male + acc.age100Female > 0
  THEN Append(acc.nextPop,
              [age    |-> 100,
               male   |-> acc.age100Male,
               female |-> acc.age100Female,
               total  |-> acc.age100Male + acc.age100Female])
  ELSE acc.nextPop

\* The age-100 aggregate is pushed and the balance of the year is checked:
\* the year is logged if the new total differs by more than the tolerance
\* from totalPop + births - totalDeaths + totalMigrationDistributed.  The
\* new snapshot becomes current, is recorded, and the loop variable advances.
RunFinishYear(s) ==
  [s EXCEPT !.aged.nextPop = WithAggregate(s.aged),
            !.warnings =
               IF Abs(SumTotals(WithAggregate(s.aged))
                      - (SumTotals(s.currentPop) + s.births
                           - s.aged.totalDeaths + s.allotted.distributed))
                    > BalanceTolerance
               THEN Append(@, s.year) ELSE @,
            !.currentPop = WithAggregate(s.aged),
            !.snapshots = Append(@, WithAggregate(s.aged)),
            !.year = @ + 1, !.pc = "Births"]

\* Ages of the cohort whose counts differ between the two evolutions, and
\* the men and the women it is given in the second one.
ChangedAges == {0, 64, 99, 100}

ChangedCounts == {<<0, 57>>, <<57, 0>>}

\* Parameter sets of the evolutions that start from different snapshots.
EvolutionParams ==
  {BaselineParams,
   [BaselineParams EXCEPT !.netMigration = -2999,
                          !.mortalityImprovement =
                             [male |-> 50, female |-> -50]]}

\* Parameter sets that differ from the first only in the parameters of the
\* economic calculation.
EconomicVariants(p) ==
  {[p EXCEPT !.retirementAge = 50],
   [p EXCEPT !.retirementAge = 80, !.workforceEntryAgeShift = -4,
             !.unemploymentAdjustment = -11]}

\* Two evolutions from snapshots that differ in one cohort, of one year for
\* every changed cohort and of MaxYears years for the cohort of age 64; or
\* two evolutions of several years from the baseline with parameter sets
\* that differ in the economic parameters.
PairInit ==
  /\ startYear = START_YEAR
  /\ \/ /\ \E p \in EvolutionParams, b \in ChangedAges, c \in ChangedCounts :
             /\ runA = RunAt(generateInitialData, p, START_YEAR)
             /\ runB = RunAt(WithCohort(generateInitialData, b, c[1], c[2]),
                             p, START_YEAR)
             /\ call = [fn |-> "evolve", changedAge |-> b]
             /\ endYear \in {START_YEAR} \cup
                             (IF b = 64 /\ c[1] = 0
                              THEN {START_YEAR + MaxYears - 1} ELSE {})
     \/ /\ endYear = START_YEAR + MaxYears - 2
        /\ \E p \in EvolutionParams :
             \E q \in EconomicVariants(p) :
               /\ runA = RunAt(generateInitialData, p, START_YEAR)
               /\ runB = RunAt(generateInitialData, q, START_YEAR)
               /\ call = [fn |-> "evolve", changedAge |-> -1]
  /\ returned = FALSE
  /\ value = <<>>
  /\ pc = "Idle"
  /\ params = BaselineParams
  /\ error = ""
  /\ year = 0
  /\ currentPop = <<>>
  /\ results = <<>>
  /\ totalPop = 0
  /\ births = 0
  /\ nextPop = <<>>
  /\ migrationByAge = <<>>
  /\ maleMigrationCarry = DoubleZero
  /\ femaleMigrationCarry = DoubleZero
  /\ age100Male = 0
  /\ age100Female = 0
  /\ totalDeaths = 0
  /\ totalMigrationDistributed = 0
  /\ idx = 1
  /\ warnings = <<>>

\* Both evolutions are at the same step of the same year.
BothAt(step) ==
  /\ runA.pc = step
  /\ runB.pc = step
  /\ runA.year <= endYear
  /\ UNCHANGED <<pc, args, error, year, currentPop, results, locals,
                 warnings, calls>>

PairBirths ==
  /\ BothAt("Births")
  /\ runA' = RunBirths(runA)
  /\ runB' = RunBirths(runB)

PairPreAllocate ==
  /\ BothAt("Migration")
  /\ runA' = RunPreAllocate(runA)
  /\ runB' = RunPreAllocate(runB)

PairLeftoverCarry ==
  /\ BothAt("Leftover")
  /\ runA' = RunLeftoverCarry(runA)
  /\ runB' = RunLeftoverCarry(runB)

PairAgeCohort ==
  /\ BothAt("Aging")
  /\ runA' = RunAgeCohort(runA)
  /\ runB' = RunAgeCohort(runB)

PairFinishYear ==
  /\ BothAt("Terminal")
  /\ runA' = RunFinishYear(runA)
  /\ runB' = RunFinishYear(runB)

PairNext ==
  \/ PairBirths
  \/ PairPreAllocate
  \/ PairLeftoverCarry
  \/ PairAgeCohort
  \/ PairFinishYear

PairSpec == PairInit /\ [][PairNext]_vars

TypeOK ==
  /\ pc \in {"Validating", "Running", "Births", "Migration", "Leftover",
             "Aging", "Terminal", "Balance", "Complete", "Failed"}
  /\ Len(results) <= endYear - startYear + 1

\* The steps of one loop iteration, and the loop head.
RunningStates == {"Running", "Births", "Migration", "Leftover", "Aging",
                  "Terminal", "Balance"}

\* The cohort of a given age in a snapshot, as a set (empty if absent).
CohortsOfAge(pop, age) == {i \in 1..Len(pop) : pop[i].age = age}

----------------------------------------------------------------------------
(* Properties *)

\* One of the five validated parameters is outside its domain:
\* fertilityRate outside [0, 10], retirementAge outside [50, 80],
\* netMigration outside [-500000, 500000], a mortality-improvement rate
\* outside [-0.05, 0.05].
InvalidParameter(p) ==
  \/ p.fertilityRate < 0 \/ p.fertilityRate > 1000
  \/ p.retirementAge < 50 \/ p.retirementAge > 80
  \/ p.netMigration < -500000 \/ p.netMigration > 500000
  \/ p.mortalityImprovement.male < -50 \/ p.mortalityImprovement.male > 50
  \/ p.mortalityImprovement.female < -50
  \/ p.mortalityImprovement.female > 50

\* C1: a run with an invalid fertility rate, retirement age, net migration
\* or mortality-improvement rate raises an error and returns no Year Record;
\* the error is raised before the baseline snapshot is seeded and before any
\* year is computed.
C1_FailsFast ==
  /\ InvalidParameter(params) /\ pc # "Validating" => pc = "Failed"
  /\ pc = "Failed" =>
       /\ error # ""
       /\ results = <<>>
       /\ currentPop = <<>>
       /\ nextPop = <<>>
       /\ year = 0

C1_Witness ==
  /\ pc = "Failed"
  /\ params.netMigration > 500000
  /\ error = "Invalid net migration"

\* The ranges the control surface documents for the two parameters the
\* engine does not validate.
EntryShiftMin == -3
EntryShiftMax == 5
UnemploymentMin == -10
UnemploymentMax == 15

OutOfDocumentedRange(p) ==
  \/ p.workforceEntryAgeShift < EntryShiftMin
  \/ p.workforceEntryAgeShift > EntryShiftMax
  \/ p.unemploymentAdjustment < UnemploymentMin
  \/ p.unemploymentAdjustment > UnemploymentMax

\* C2 as stated: no run with an out-of-bounds value of any of the seven
\* Simulation Parameters reaches the Running state.
C2_AllSevenChecked ==
  InvalidParameter(params) \/ OutOfDocumentedRange(params)
    => pc \notin RunningStates

\* C2 as amended: every run in the Running state has its retirement age,
\* fertility rate, net migration and both mortality-improvement rates inside
\* their bounds; the workforce-entry age shift and the unemployment
\* adjustment are not checked.
C2_FiveChecked ==
  pc \in RunningStates =>
    /\ params.fertilityRate \in 0..1000
    /\ params.retirementAge \in 50..80
    /\ params.netMigration \in -500000..500000
    /\ params.mortalityImprovement.male \in -50..50
    /\ params.mortalityImprovement.female \in -50..50

C2_Witness ==
  /\ pc = "Balance"
  /\ params.unemploymentAdjustment > UnemploymentMax

\* C3: in every simulated year the sum of the cohort totals of the next
\* snapshot differs from totalPop + births - totalDeaths
\* + totalMigrationDistributed by no more than 500, so the balance warning
\* is never raised.
C3_BalanceHolds ==
  /\ pc = "Balance" =>
       Abs(SumTotals(nextPop)
           - (totalPop + births - totalDeaths + totalMigrationDistributed))
         <= 500
  /\ warnings = <<>>

\* C4: in every snapshot of every Year Record each cohort's male and female
\* counts are integers >= 0.
C4_NoNegativeCount ==
  \A k \in 1..Len(results) :
    \A i \in 1..Len(results[k].population) :
      /\ results[k].population[i].male \in Nat
      /\ results[k].population[i].female \in Nat

\* A recorded snapshot in which emigration emptied a cohort of adults.
C4_Witness ==
  /\ params.netMigration < 0
  /\ \E k \in 2..Len(results) :
       \E i \in 1..Len(results[k].population) :
         /\ results[k].population[i].age \in 20..40
         /\ results[k].population[i].male = 0

\* C5: every recorded snapshot holds exactly one cohort for each age 0..100,
\* in ascending age order.
C5_AllAgesOnce ==
  \A k \in 1..Len(results) :
    /\ Len(results[k].population) = 101
    /\ \A i \in 1..Len(results[k].population) :
         results[k].population[i].age = i - 1

\* Position of a control state in the order the run goes through them.
PcRank(s) ==
  CASE s = "Validating" -> 0
    [] s = "Running"    -> 1
    [] s = "Births"     -> 2
    [] s = "Migration"  -> 3
    [] s = "Leftover"   -> 4
    [] s = "Aging"      -> 5
    [] s = "Terminal"   -> 6
    [] s = "Balance"    -> 7
    [] OTHER            -> 8

\* C6: a run with valid parameters and startYear <= endYear that has
\* reached state Complete returns exactly endYear - startYear + 1 Year
\* Records, for the years startYear, startYear + 1, ..., endYear in that
\* order; while it runs, the records so far are those of startYear up to the
\* year before the one the loop is at; and every step moves the run forward
\* (a later year, or a later step of the same year, or the next cohort of
\* the same step) with the year never beyond endYear + 1, so no run goes on
\* for ever.
C6_CompleteSeries ==
  /\ [](/\ \A k \in 1..Len(results) : results[k].year = startYear + k - 1
        /\ pc = "Running" => Len(results) = year - startYear
        /\ pc = "Complete" /\ startYear <= endYear
             => /\ ~InvalidParameter(params)
                /\ Len(results) = endYear - startYear + 1
                /\ results[Len(results)].year = endYear)
  /\ [][/\ year' <= Max(startYear, endYear + 1)
        /\ \/ year' > year
           \/ year' = year /\ PcRank(pc') > PcRank(pc)
           \/ year' = year /\ pc' = pc /\ idx' > idx]_vars

C6_Witness ==
  /\ pc = "Complete"
  /\ endYear = startYear + MaxYears - 1
  /\ Len(results) = MaxYears

\* C8: once a Year Record is appended no later step changes it; the result
\* sequence changes only by appending one record at its end.
C8_AppendOnly ==
  [][/\ Len(results') \in {Len(results), Len(results) + 1}
     /\ \A k \in 1..Len(results) : results'[k] = results[k]]_vars

\* The second record is being appended to the first while the evolution of
\* the first year is over.
C8_Witness ==
  /\ Len(results) = 2
  /\ pc = "Terminal"
  /\ results[1].population # currentPop

\* What one sex of the cohort at position i of the current snapshot leaves
\* as survivors, from that cohort, its migrants and its own probability.
SurvivorsOf(i, sex) ==
  IF sex = "male"
  THEN RegularCohortSex(currentPop[i].male, migrationByAge[i].male,
         getMortalityRate(currentPop[i].age, "male", year - startYear,
                          params.mortalityImprovement)).surviving
  ELSE RegularCohortSex(currentPop[i].female, migrationByAge[i].female,
         getMortalityRate(currentPop[i].age, "female", year - startYear,
                          params.mortalityImprovement)).surviving

\* C9: when the ageing loop is over, the next snapshot holds, besides the
\* newborns, exactly one cohort of age a + 1 for each current cohort of age
\* a in 0..98, made of the survivors of that cohort and of no other; no
\* cohort keeps its age, grows younger or skips an age, and the age-99
\* survivors are in the age-100 accumulators only.
C9_AgesByOne ==
  pc = "Terminal" =>
    /\ nextPop[1].age = 0
    /\ Len(nextPop) = 1 + Cardinality({i \in 1..Len(currentPop) :
                                         currentPop[i].age <= 98})
    /\ \A i \in 1..Len(currentPop) :
         currentPop[i].age <= 98 =>
           /\ Cardinality(CohortsOfAge(nextPop, currentPop[i].age + 1)) = 1
           /\ \A j \in CohortsOfAge(nextPop, currentPop[i].age + 1) :
                /\ nextPop[j].male = SurvivorsOf(i, "male")
                /\ nextPop[j].female = SurvivorsOf(i, "female")
    /\ \A i \in 1..Len(currentPop) :
         currentPop[i].age = 99 =>
           /\ age100Male >= SurvivorsOf(i, "male")
           /\ age100Female >= SurvivorsOf(i, "female")
           /\ CohortsOfAge(nextPop, 100) = {}

\* A fourth-year step, with mortality improving at rates whose third power
\* the runtime does not round to the nearest double, in which cohorts of
\* different sizes moved up and survivors of age 99 joined the aggregate.
C9_Witness ==
  /\ pc = "Terminal"
  /\ year = startYear + 3
  /\ params.mortalityImprovement = [male |-> 22, female |-> 23]
  /\ age100Male + age100Female > 0
  /\ nextPop[2].total # nextPop[3].total
  /\ nextPop[2].total > 0

\* Replacement-level fertility, 2.1 children per woman, in hundredths.
ReplacementTFR == 210

\* Total of the cohorts of a given age in a snapshot (0 if there is none).
TotalOfAge(pop, age) ==
  IF CohortsOfAge(pop, age) = {} THEN 0
  ELSE pop[CHOOSE i \in CohortsOfAge(pop, age) : TRUE].total

\* What one sex of the current age-99 cohort leaves as survivors (0 if the
\* snapshot has no such cohort).
SurvivorsOfAge99(sex) ==
  IF CohortsOfAge(currentPop, 99) = {} THEN 0
  ELSE SurvivorsOf(CHOOSE i \in CohortsOfAge(currentPop, 99) : TRUE, sex)

\* The largest cohort total of a snapshot.
LargestCohort(pop) ==
  CHOOSE m \in {pop[i].total : i \in 1..Len(pop)} :
    \A i \in 1..Len(pop) : pop[i].total <= m

\* C10: in every year of a run with net migration 0 and below-replacement
\* fertility, however long the run has lasted, no member of the age-100
\* aggregate survives the year: the next aggregate is made of the survivors
\* of the current age-99 cohort and of nobody else, so it does not exceed
\* that cohort, there is none when that inflow is zero, and it never
\* exceeds the largest cohort of the first Year Record.
C10_TerminalBucketDecays ==
  pc = "Balance" /\ params.netMigration = 0
  /\ params.fertilityRate < ReplacementTFR =>
    LET inflow == SurvivorsOfAge99("male") + SurvivorsOfAge99("female")
    IN  /\ TotalOfAge(nextPop, 100) = inflow
        /\ inflow <= TotalOfAge(currentPop, 99)
        /\ inflow = 0 => CohortsOfAge(nextPop, 100) = {}
        /\ TotalOfAge(nextPop, 100) <= LargestCohort(results[1].population)

\* In the last year of the long decline the aggregate has members, all of
\* whom die while survivors of age 99 take their place; earlier in the run
\* an aggregate with members was followed by none, the inflow being zero.
C10_Witness ==
  /\ pc = "Balance"
  /\ params.netMigration = 0
  /\ params.fertilityRate < ReplacementTFR
  /\ year - startYear >= HorizonYears
  /\ TotalOfAge(currentPop, 100) > 0
  /\ TotalOfAge(nextPop, 100) > 0
  /\ TotalOfAge(nextPop, 100) # TotalOfAge(currentPop, 100)
  /\ \E k \in 2..Len(results) :
       /\ TotalOfAge(results[k - 1].population, 100) > 0
       /\ TotalOfAge(results[k].population, 100) = 0

\* A double in the closed interval [0, 1].
IsProbability(x) ==
  /\ ~IsNaN(x)
  /\ DoubleCmp(x, DoubleZero) >= 0
  /\ DoubleCmp(x, DoubleOne) <= 0

\* A number that was computed without a division by zero.
RatDefined(x) == x.den # <<>>

\* A number that is exactly zero.
RatIsZero(x) == x.num = <<>> /\ x.den # <<>>

\* x lies in the closed interval [lo, hi] of two natural numbers.
RatWithin(x, lo, hi) ==
  /\ RatDefined(x)
  /\ RatCmp(x, RatOfNat(lo)) >= 0
  /\ RatCmp(x, RatOfNat(hi)) <= 0

\* The exact value of a double.
DoubleAsRat(x) ==
  Rat(x.neg,
      IF x.exp >= 0 THEN BigShiftLeft(x.man, x.exp) ELSE x.man,
      IF x.exp >= 0 THEN <<1>> ELSE BigShiftLeft(<<1>>, -x.exp))

RatAbs(x) == Rat(FALSE, x.num, x.den)

\* What the rounding errors of the floating-point operations of one loop
\* stay below: a billionth.
RoundingTolerance == RatOfFrac(1, 1000000000)

\* x and y differ by no more than the rounding tolerance.
RatNear(x, y) == RatCmp(RatAbs(RatSub(x, y)), RoundingTolerance) <= 0

\* C11: for every age 0..100, either sex, every elapsed-year offset of a
\* run and every valid improvement rate the mortality probability is in
\* [0, 1]; for every age, entry-age shift and unemployment adjustment the
\* employment rate is in [0, 1]; for every snapshot the sustainability
\* index is in [0, 100].
C11_RatesWithinBounds ==
  returned =>
    /\ call.fn = "getMortalityRate" /\ call.age >= 0 =>
         IsProbability(value)
    /\ call.fn = "getEmploymentRate" => IsProbability(value)
    /\ call.fn = "calculateEconomicMetrics" =>
         RatWithin(value.sustainabilityIndex, 0, 100)

\* In the last year the application projects, mortality worsening at the
\* bound of the valid rates pushed the probability of a man of 99 to the
\* cap.
C11_Witness ==
  /\ returned
  /\ call.fn = "getMortalityRate"
  /\ call.age = 99
  /\ call.sex = "male"
  /\ call.mortalityImprovement.male = -50
  /\ call.yearsFromBase = END_YEAR - START_YEAR
  /\ value = DoubleOne

\* C12: when the actual workforce is zero the calculator returns
\* sustainabilityIndex = 0 and ssBalancePerWorker, healthcareCostPerWorker
\* and totalBurdenPerWorker = 0, laborUtilizationRate is 0 when the
\* working-age population is 0, and no returned number comes from a
\* division by zero.
C12_ZeroWorkforce ==
  returned /\ call.fn = "calculateEconomicMetrics" =>
    /\ value.actualWorkforce = 0 =>
         /\ RatIsZero(value.sustainabilityIndex)
         /\ RatIsZero(value.ssBalancePerWorker)
         /\ RatIsZero(value.healthcareCostPerWorker)
         /\ RatIsZero(value.totalBurdenPerWorker)
    /\ WorkingPop(call.population, call.retirementAge) = 0 =>
         RatIsZero(value.laborUtilizationRate)
    /\ \A f \in {"laborUtilizationRate", "totalSSContributions",
                 "totalPensionPayments", "ssBalance", "ssBalancePerWorker",
                 "totalHealthcareCost", "publicHealthcareCost",
                 "healthcareCostPerWorker", "totalBurdenPerWorker",
                 "sustainabilityIndex"} : RatDefined(value[f])

\* Elders only, all of them out of work: pensions and healthcare are owed
\* and nobody works.
C12_Witness ==
  /\ returned
  /\ call.fn = "calculateEconomicMetrics"
  /\ value.actualWorkforce = 0
  /\ WorkingPop(call.population, call.retirementAge) = 0
  /\ ~RatIsZero(value.totalPensionPayments)
  /\ ~RatIsZero(value.totalHealthcareCost)

\* C13: with no migration and no fertility the total population of a Year
\* Record never exceeds that of the record before it, and the age-0 cohort
\* is empty in every record after the first.
C13_ClosedPopulationShrinks ==
  params.netMigration = 0 /\ params.fertilityRate = 0 =>
    \A k \in 2..Len(results) :
      /\ results[k].totalPopulation <= results[k - 1].totalPopulation
      /\ TotalOfAge(results[k].population, 0) = 0

\* A closed population that lost people in two consecutive years.
C13_Witness ==
  /\ params.netMigration = 0
  /\ params.fertilityRate = 0
  /\ Len(results) >= 3
  /\ results[2].totalPopulation < results[1].totalPopulation
  /\ results[3].totalPopulation < results[2].totalPopulation
  /\ TotalOfAge(results[1].population, 0) > 0

\* The number of people in the rows lo..hi of the baseline table.
RECURSIVE BaselineTotal(_, _)
BaselineTotal(lo, hi) ==
  IF lo > hi THEN 0
  ELSE IF lo = hi THEN populationData[lo].male + populationData[lo].female
  ELSE LET mid == (lo + hi) \div 2
       IN  BaselineTotal(lo, mid) + BaselineTotal(mid + 1, hi)

\* C14: whatever the parameters of a run, its first Year Record is the
\* record of the start year and holds the baseline table row by row, with
\* each cohort's total the sum of its two sexes and the record's total
\* population the total of the baseline table.
C14_StartsFromBaseline ==
  Len(results) >= 1 =>
    /\ results[1].year = startYear
    /\ Len(results[1].population) = Len(populationData)
    /\ \A i \in 1..Len(populationData) :
         /\ results[1].population[i].age = populationData[i].age
         /\ results[1].population[i].male = populationData[i].male
         /\ results[1].population[i].female = populationData[i].female
         /\ results[1].population[i].total
              = populationData[i].male + populationData[i].female
    /\ results[1].totalPopulation = BaselineTotal(1, Len(populationData))

\* A run with non-default parameters whose current snapshot has moved away
\* from the baseline while its first record still holds it.
C14_Witness ==
  /\ Len(results) >= 2
  /\ params # BaselineParams
  /\ results[2].population # results[1].population
  /\ results[1].totalPopulation = BaselineTotal(1, Len(populationData))
  /\ results[1].totalPopulation > 0

\* The number of people in the cohorts from..to of a snapshot whose age is
\* at least lo and below hi.
RECURSIVE PeopleAged(_, _, _, _, _)
PeopleAged(pop, lo, hi, from, to) ==
  IF from > to THEN 0
  ELSE IF from = to
  THEN (IF pop[from].age >= lo /\ pop[from].age < hi
        THEN pop[from].male + pop[from].female ELSE 0)
  ELSE LET mid == (from + to) \div 2
       IN  PeopleAged(pop, lo, hi, from, mid)
           + PeopleAged(pop, lo, hi, mid + 1, to)

\* The people of working age and of retirement age in a Year Record's own
\* snapshot.
WorkersIn(rec) ==
  PeopleAged(rec.population, 15, params.retirementAge,
             1, Len(rec.population))

RetireesIn(rec) ==
  PeopleAged(rec.population, params.retirementAge, 1000,
             1, Len(rec.population))

\* C15: in every Year Record the old-age dependency ratio times the people
\* aged 15 up to the retirement age in the record's snapshot equals 100
\* times the people aged at or above the retirement age in that snapshot,
\* and the ratio is 0 when nobody is of working age.
C15_DependencyRatio ==
  \A k \in 1..Len(results) :
    LET rec      == results[k]
        workers  == WorkersIn(rec)
        retirees == RetireesIn(rec)
    IN  /\ rec.workingAgePop = workers
        /\ rec.retiredPop = retirees
        /\ IF workers > 0
           THEN /\ RatDefined(rec.oldAgeDependencyRatio)
                /\ RatCmp(RatMul(rec.oldAgeDependencyRatio,
                                 RatOfNat(workers)),
                          RatOfNat(100 * retirees)) = 0
           ELSE RatIsZero(rec.oldAgeDependencyRatio)

\* A run whose first record has people in both bands and a later record
\* has retirees but nobody of working age.
C15_Witness ==
  /\ Len(results) >= 2
  /\ WorkersIn(results[1]) > 0
  /\ RetireesIn(results[1]) > 0
  /\ ~RatIsZero(results[1].oldAgeDependencyRatio)
  /\ \E k \in 2..Len(results) :
       /\ WorkersIn(results[k]) = 0
       /\ RetireesIn(results[k]) > 0
       /\ RatIsZero(results[k].oldAgeDependencyRatio)

\* C16: a balance warning never fails the run; the step that checks the
\* balance always makes the evolved snapshot the current one, leaves the
\* records alone and moves on to the next year; and a run that raised
\* warnings still returns one record for every year up to endYear.
C16_WarningNonFatal ==
  /\ [](warnings # <<>> => error = "" /\ pc # "Failed")
  /\ [](pc = "Complete" /\ warnings # <<>> =>
         /\ Len(results) = endYear - startYear + 1
         /\ \A w \in 1..Len(warnings) :
              \E k \in 1..Len(results) : results[k].year = warnings[w])
  /\ [][pc = "Balance" =>
          /\ currentPop' = nextPop
          /\ results' = results
          /\ year' = year + 1
          /\ pc' = "Running"
          /\ error' = ""]_vars

\* A completed run that raised a warning before its last year and recorded
\* the years after it.
C16_Witness ==
  /\ pc = "Complete"
  /\ warnings # <<>>
  /\ warnings[1] < endYear
  /\ Len(results) = endYear - startYear + 1
  /\ results[Len(results)].year = endYear

\* The migrants of one sex allotted to the entries from..to of the
\* pre-allocation that belong to the ages 0..99.
RECURSIVE MigrantsAllotted(_, _, _, _)
MigrantsAllotted(byAge, sex, from, to) ==
  IF from > to THEN 0
  ELSE IF from = to
  THEN (IF byAge[from].age <= 99 THEN byAge[from][sex] ELSE 0)
  ELSE LET mid == (from + to) \div 2
       IN  MigrantsAllotted(byAge, sex, from, mid)
           + MigrantsAllotted(byAge, sex, mid + 1, to)

\* C17: once the leftover carry has been applied, the migrants allotted to
\* the ages 0..99 of each sex differ from that sex's share of netMigration
\* by at most one person, and totalMigrationDistributed differs from
\* netMigration by at most one person per sex.
C17_AllMigrationDistributed ==
  pc = "Aging" /\ idx = 1 =>
    LET males   == MigrantsAllotted(migrationByAge, "male",
                                    1, Len(migrationByAge))
        females == MigrantsAllotted(migrationByAge, "female",
                                    1, Len(migrationByAge))
    IN  /\ Abs(MigrationSexRatioDen * males
               - MigrationSexRatioNum * params.netMigration)
             <= MigrationSexRatioDen
        /\ Abs(MigrationSexRatioDen * females
               - (MigrationSexRatioDen - MigrationSexRatioNum)
                   * params.netMigration)
             <= MigrationSexRatioDen
        /\ totalMigrationDistributed = males + females
        /\ Abs(totalMigrationDistributed - params.netMigration) <= 2

\* The mortality probability the ageing loop uses for the cohort at
\* position i of the current snapshot.
QxOfCohort(i, sex) ==
  getMortalityRate(currentPop[i].age, sex, year - startYear,
                   params.mortalityImprovement)

\* What one step of the ageing loop adds for a non-terminal cohort, given
\* the survivors and the deaths of each sex: the deaths are counted, and the
\* survivors are pushed one year older or, from age 99, join the aggregate.
CohortStepYields(i, maleLeft, femaleLeft, deaths) ==
  /\ totalDeaths' = totalDeaths + deaths
  /\ IF currentPop[i].age = 99
     THEN /\ age100Male' = age100Male + maleLeft
          /\ age100Female' = age100Female + femaleLeft
          /\ nextPop' = nextPop
     ELSE /\ nextPop' = Append(nextPop,
                               [age    |-> currentPop[i].age + 1,
                                male   |-> maleLeft,
                                female |-> femaleLeft,
                                total  |-> maleLeft + femaleLeft])
          /\ age100Male' = age100Male
          /\ age100Female' = age100Female

\* C18 as stated: for every non-terminal cohort the year's deaths are the
\* rounded full-year share of count + migrants, nothing else is taken from
\* the migrants, and the survivors are count + migrants - deaths.
C18_SingleFullYearMortality ==
  [][pc = "Aging" /\ idx <= Len(currentPop) /\ currentPop[idx].age < 100 =>
       LET g   == currentPop[idx]
           mig == migrationByAge[idx]
           qxM == QxOfCohort(idx, "male")
           qxF == QxOfCohort(idx, "female")
           dM  == MathRound(DoubleMul(DoubleOfInt(g.male + mig.male), qxM))
           dF  == MathRound(DoubleMul(DoubleOfInt(g.female + mig.female),
                                      qxF))
       IN  CohortStepYields(idx, g.male + mig.male - dM,
                            g.female + mig.female - dF, dM + dF)]_vars

\* The rounded half-year share of the migrants of one cohort and sex:
\* round(migrants * (1 - sqrt(1 - qx))).
HalfYearShare(migrants, qx) ==
  MathRound(DoubleMul(DoubleOfInt(migrants),
                      DoubleSub(DoubleOne,
                                DoubleSqrt(DoubleSub(DoubleOne, qx)))))

\* C18: for every non-terminal cohort the migrants first lose their rounded
\* half-year share, the cohort's deaths are the rounded full-year share of
\* count + migrants - migrant deaths, both kinds of deaths are counted, and
\* the survivors are count + migrants - migrant deaths - deaths, or 0 if
\* that is negative.
C18_HalfYearThenFullYear ==
  [][pc = "Aging" /\ idx <= Len(currentPop) /\ currentPop[idx].age < 100 =>
       LET g   == currentPop[idx]
           mig == migrationByAge[idx]
           qxM == QxOfCohort(idx, "male")
           qxF == QxOfCohort(idx, "female")
           mdM == HalfYearShare(mig.male, qxM)
           mdF == HalfYearShare(mig.female, qxF)
           dM  == MathRound(DoubleMul(DoubleOfInt(g.male + mig.male - mdM),
                                      qxM))
           dF  == MathRound(DoubleMul(DoubleOfInt(g.female + mig.female
                                                    - mdF), qxF))
       IN  CohortStepYields(idx,
                            Max(0, g.male + mig.male - mdM - dM),
                            Max(0, g.female + mig.female - mdF - dF),
                            dM + dF + mdM + mdF)]_vars

\* In the fourth year of a run with improving mortality the cohort just
\* aged had immigrants of whom some died as migrants, and members who died
\* as members.
C18_Witness ==
  /\ pc = "Aging"
  /\ year = startYear + 3
  /\ params.mortalityImprovement.male > 0
  /\ idx > 1
  /\ currentPop[idx - 1].age < 99
  /\ migrationByAge[idx - 1].male > 0
  /\ LET qx == QxOfCohort(idx - 1, "male")
         md == HalfYearShare(migrationByAge[idx - 1].male, qx)
         d  == MathRound(DoubleMul(DoubleOfInt(currentPop[idx - 1].male
                                     + migrationByAge[idx - 1].male - md),
                                   qx))
     IN  /\ md > 0
         /\ d > 0
         /\ nextPop[Len(nextPop)].male
              = currentPop[idx - 1].male + migrationByAge[idx - 1].male
                  - md - d

\* The weights of the first n groups of a profile added up, in thousandths.
RECURSIVE WeightSum(_, _)
WeightSum(profile, n) ==
  IF n = 0 THEN 0 ELSE WeightSum(profile, n - 1) + profile[n].weight

\* A number of ages every group size divides: the groups hold 5 ages, the
\* last one 21.
AgeSpan == 5 * 21

\* The weight of one age in units of 1 / (AgeSpan * total weight): the
\* weight of its group shared out among the ages of the group.
WeightUnits(age, sex) ==
  LET profile == migrationAgeProfile[sex]
      g == FindGroup(profile, age, 1)
      r == parseAgeGroup(profile[g])
  IN  IF g = 0 THEN 0
      ELSE profile[g].weight * (AgeSpan \div (r[2] - r[1] + 1))

\* The weight units of the non-terminal ages among the first n cohorts of a
\* snapshot.
RECURSIVE WeightUnitsSoFar(_, _, _)
WeightUnitsSoFar(pop, n, sex) ==
  IF n = 0 THEN 0
  ELSE WeightUnitsSoFar(pop, n - 1, sex)
         + (IF pop[n].age < 100 THEN WeightUnits(pop[n].age, sex) ELSE 0)

\* The migrants of one sex that the first n cohorts of the current snapshot
\* are due in exact arithmetic: the share of the sex in netMigration times
\* the weights of their ages.
ExactShareSoFar(n, sex) ==
  LET profile == migrationAgeProfile[sex]
      ratio == IF sex = "male" THEN MigrationSexRatioNum
               ELSE MigrationSexRatioDen - MigrationSexRatioNum
  IN  Rat(params.netMigration < 0,
          BigMul(BigOfNat(Abs(params.netMigration) * ratio),
                 BigOfNat(WeightUnitsSoFar(currentPop, n, sex))),
          BigMul(BigOfNat(MigrationSexRatioDen * AgeSpan),
                 BigOfNat(WeightSum(profile, Len(profile)))))

\* The exact share of the cohorts processed so far less the migrants
\* allotted to them: the rounding loss so far.
LossSoFar(sex) ==
  RatSub(ExactShareSoFar(Len(migrationByAge), sex),
         RatOfFrac(MigrantsAllotted(migrationByAge, sex,
                                    1, Len(migrationByAge)), 1))

\* A carry that is a fraction of a person: in [0, 1).
IsCarry(x) ==
  /\ ~IsNaN(x)
  /\ DoubleCmp(x, DoubleZero) >= 0
  /\ DoubleCmp(x, DoubleOne) < 0

\* C19 as stated: while the migrants are pre-allocated the carry of each sex
\* is in [0, 1) and the exact allocation so far exceeds the integers
\* allotted so far by less than one person, and is never below them by a
\* person.
C19_LossBelowOnePerson ==
  pc \in {"Migration", "Leftover"} =>
    \A sex \in {"male", "female"} :
      /\ IsCarry(IF sex = "male" THEN maleMigrationCarry
                 ELSE femaleMigrationCarry)
      /\ RatCmp(RatAbs(LossSoFar(sex)), RatOfNat(1)) < 0

\* C19 as amended: while the migrants are pre-allocated the carry of each
\* sex is a fraction of a person in [0, 1); both carries are 0 when the
\* allocation of a year starts; each step for a non-terminal age allots the
\* floor of the age's share plus the old carry and keeps the rest as the new
\* carry, the step for the age-100 cohort allots nothing and keeps the
\* carries; and the exact allocation so far less the integers allotted so
\* far is the carry up to the rounding error of the floating-point
\* operations, so the loss so far never exceeds one person.
C19_CarryBelowOnePerson ==
  /\ [](pc \in {"Migration", "Leftover"} =>
         /\ IsCarry(maleMigrationCarry)
         /\ IsCarry(femaleMigrationCarry)
         /\ RatNear(LossSoFar("male"), DoubleAsRat(maleMigrationCarry))
         /\ RatNear(LossSoFar("female"), DoubleAsRat(femaleMigrationCarry))
         /\ RatCmp(RatAbs(LossSoFar("male")), RatOfNat(1)) <= 0
         /\ RatCmp(RatAbs(LossSoFar("female")), RatOfNat(1)) <= 0)
  /\ [](pc = "Migration" /\ idx = 1 =>
         /\ maleMigrationCarry = DoubleZero
         /\ femaleMigrationCarry = DoubleZero
         /\ migrationByAge = <<>>)
  /\ [][pc = "Migration" /\ idx <= Len(currentPop) =>
          /\ Len(migrationByAge') = idx
          /\ migrationByAge'[idx].age = currentPop[idx].age
          /\ IF currentPop[idx].age >= 100
             THEN /\ migrationByAge'[idx].male = 0
                  /\ migrationByAge'[idx].female = 0
                  /\ maleMigrationCarry' = maleMigrationCarry
                  /\ femaleMigrationCarry' = femaleMigrationCarry
             ELSE LET exactMale ==
                        ExactMigration(params.netMigration,
                                       currentPop[idx].age, "male",
                                       maleMigrationCarry)
                      exactFemale ==
                        ExactMigration(params.netMigration,
                                       currentPop[idx].age, "female",
                                       femaleMigrationCarry)
                  IN  /\ migrationByAge'[idx].male = MathFloor(exactMale)
                      /\ migrationByAge'[idx].female = MathFloor(exactFemale)
                      /\ RatCmp(RatAdd(RatOfFrac(migrationByAge'[idx].male,
                                                 1),
                                       DoubleAsRat(maleMigrationCarry')),
                                DoubleAsRat(exactMale)) = 0
                      /\ RatCmp(RatAdd(RatOfFrac(migrationByAge'[idx].female,
                                                 1),
                                       DoubleAsRat(femaleMigrationCarry')),
                                DoubleAsRat(exactFemale)) = 0]_vars

\* Emigrants were just allotted to an age with a carry left for both sexes.
C19_Witness ==
  /\ pc = "Migration"
  /\ idx > 1
  /\ params.netMigration < 0
  /\ migrationByAge[idx - 1].male < 0
  /\ migrationByAge[idx - 1].female < 0
  /\ DoubleCmp(maleMigrationCarry, DoubleZero) > 0
  /\ DoubleCmp(femaleMigrationCarry, DoubleZero) > 0

\* The count of one sex in the cohort of a given age (0 if there is none).
CountOfAge(pop, age, sex) ==
  IF CohortsOfAge(pop, age) = {} THEN 0
  ELSE pop[CHOOSE i \in CohortsOfAge(pop, age) : TRUE][sex]

\* What one sex of the current age-100 cohort leaves as survivors, from its
\* own count and the age-100 probability only.
SurvivorsOfAge100(sex) ==
  LET count == CountOfAge(currentPop, 100, sex)
      qx    == getMortalityRate(100, sex, year - startYear,
                                params.mortalityImprovement)
  IN  Max(0, count - MathRound(DoubleMul(DoubleOfInt(count), qx)))

\* The next snapshot's age-100 cohort when a year's evolution is complete:
\* for each sex the survivors of the current age-99 cohort plus the
\* survivors of the current age-100 cohort, the cohort being left out when
\* both sexes are 0; the current age-100 cohort was given no migrants, and
\* the next snapshot has no cohort beyond age 100.
AggregateAssembled ==
  pc = "Balance" =>
    /\ \A sex \in {"male", "female"} :
         CountOfAge(nextPop, 100, sex)
           = SurvivorsOfAge99(sex) + SurvivorsOfAge100(sex)
    /\ \A i \in CohortsOfAge(currentPop, 100) :
         migrationByAge[i].male = 0 /\ migrationByAge[i].female = 0
    /\ Cardinality(CohortsOfAge(nextPop, 100)) <= 1
    /\ \A j \in 1..Len(nextPop) : nextPop[j].age <= 100
    /\ TotalOfAge(nextPop, 100)
         = CountOfAge(nextPop, 100, "male")
             + CountOfAge(nextPop, 100, "female")
    /\ CohortsOfAge(nextPop, 100) # {} <=>
         SurvivorsOfAge99("male") + SurvivorsOfAge100("male")
           + SurvivorsOfAge99("female") + SurvivorsOfAge100("female") > 0

\* The iteration of the ageing loop for the age-100 cohort: its deaths are
\* round(count * qx(100)) of each sex, from its own count alone, and count -
\* deaths of each sex (0 if negative) join the accumulators; nothing is
\* pushed.
TerminalCohortAged ==
  pc = "Aging" /\ idx <= Len(currentPop) /\ currentPop[idx].age >= 100 =>
    LET g   == currentPop[idx]
        qxM == getMortalityRate(100, "male", year - startYear,
                                params.mortalityImprovement)
        qxF == getMortalityRate(100, "female", year - startYear,
                                params.mortalityImprovement)
        dM  == MathRound(DoubleMul(DoubleOfInt(g.male), qxM))
        dF  == MathRound(DoubleMul(DoubleOfInt(g.female), qxF))
    IN  /\ totalDeaths' = totalDeaths + dM + dF
        /\ age100Male' = age100Male + Max(0, g.male - dM)
        /\ age100Female' = age100Female + Max(0, g.female - dF)
        /\ nextPop' = nextPop

\* C20: the age-100 cohort of the next snapshot holds, for each sex, the
\* survivors of the current age-99 cohort plus the survivors of the current
\* age-100 cohort; the current age-100 cohort receives no migrants, and its
\* deaths are computed from its own count and the age-100 mortality
\* probability only.
C20_TerminalAggregate ==
  /\ []AggregateAssembled
  /\ [][TerminalCohortAged]_vars

\* A late year of a run with net migration in which the age-100 cohort had
\* members of both sexes, all of whom died, and the new aggregate is made
\* of the men and women who survived age 99.
C20_Witness ==
  /\ pc = "Balance"
  /\ params.netMigration # 0
  /\ year - startYear >= MaxYears - 1
  /\ SurvivorsOfAge99("male") > 0
  /\ CountOfAge(currentPop, 100, "male") > 0
  /\ CountOfAge(currentPop, 100, "female") > 0
  /\ SurvivorsOfAge99("female") > 0
  /\ CountOfAge(nextPop, 100, "male") = SurvivorsOfAge99("male")
  /\ CountOfAge(nextPop, 100, "female") = SurvivorsOfAge99("female")

\* C21: the mortality probability of an age of 100 or more is the life
\* table's entry for age 100 (at most 1), whatever the elapsed years and the
\* improvement rates; for an age below 100 it is the smaller of 1 and
\* base(age) * (1 - rate)^yearsFromBase, with the rate of the sex asked for,
\* up to the rounding of the floating-point operations.
C21_TerminalRateUnimproved ==
  returned /\ call.fn = "getMortalityRate" /\ call.age >= 0 =>
    LET table == lifeTables[call.sex]
        rate  == call.mortalityImprovement[call.sex]
        kept  == RatPow(RatOfFrac(ImprovementDen - rate, ImprovementDen),
                        call.yearsFromBase)
    IN  IF call.age >= 100
        THEN value = DoubleOfDecimal(Min(table[100], QxDen), QxDen)
        ELSE RatNear(DoubleAsRat(value),
                     RatMin(RatOfNat(1),
                            RatMul(RatOfFrac(table[call.age], QxDen), kept)))

\* The probability of age 100, asked for in the last year the application
\* projects with the fastest valid improvement, is the table's last entry.
C21_Witness ==
  /\ returned
  /\ call.fn = "getMortalityRate"
  /\ call.age = 100
  /\ call.yearsFromBase = END_YEAR - START_YEAR
  /\ call.mortalityImprovement[call.sex] = 50
  /\ value = DoubleOfDecimal(lifeTables[call.sex][100], QxDen)

\* What the women of one age add to totalBirths: their number times the
\* ASFR of the age times fertilityRate / 1.40.
BirthsOfAge(pop, age) ==
  DoubleMul(DoubleOfInt(CountOfAge(pop, age, "female")),
            DoubleMul(getFertilityRate(age),
                      DoubleDiv(DoubleOfDecimal(params.fertilityRate,
                                                FertilityDen),
                                DoubleOfDecimal(BaseTFR, FertilityDen))))

\* totalBirths after the ages from..to, added up in ascending age as the
\* loop does, from its value before them.
RECURSIVE BirthsSum(_, _, _, _)
BirthsSum(pop, from, to, before) ==
  IF from > to THEN before
  ELSE IF from = to THEN DoubleAdd(before, BirthsOfAge(pop, from))
  ELSE CHOOSE sum \in
         {BirthsSum(pop, ((from + to) \div 2) + 1, to, half) :
            half \in {BirthsSum(pop, from, (from + to) \div 2, before)}} :
         TRUE

\* The women of the ages from..to of a snapshot, each age weighted by its
\* ASFR in tenths.
RECURSIVE WeightedWomen(_, _, _)
WeightedWomen(pop, from, to) ==
  IF from > to THEN <<>>
  ELSE IF from = to
  THEN BigOfNat(CountOfAge(pop, from, "female") * fertilityAsfr[from - 14])
  ELSE BigAdd(WeightedWomen(pop, from, (from + to) \div 2),
              WeightedWomen(pop, ((from + to) \div 2) + 1, to))

\* The births a snapshot gives in exact arithmetic, unrounded.
ExactBirths(pop) ==
  Rat(FALSE,
      BigMul(WeightedWomen(pop, 15, 49), BigOfNat(params.fertilityRate)),
      BigOfNat(AsfrDen * PerThousand * BaseTFR))

\* The births a snapshot gives: the sum the loop computes, rounded to the
\* nearest integer, halves upwards.
BirthsExpected(pop) == MathRound(BirthsSum(pop, 15, 49, DoubleZero))

\* C22: whenever a record has been appended, the age-0 cohort of every Year
\* Record after the first has as total the rounded sum over the ages 15..49
\* of the previous record's women of that age times ASFR(age) times
\* fertilityRate / 1.40 (within half a birth of the exact sum, rounding
\* errors apart), as boys the floor of total * r / (1 + r) and as girls the
\* rest; it is the first cohort of the snapshot and it is empty when the
\* fertility rate is 0.
C22_NewbornCohort ==
  pc = "Births" =>
    \A k \in 2..Len(results) :
      LET b    == BirthsExpected(results[k - 1].population)
          boys == MathFloor(DoubleMul(DoubleOfInt(b),
                    DoubleDiv(DoubleOfDecimal(SexRatioAtBirthNum,
                                              SexRatioAtBirthDen),
                              DoubleAdd(DoubleOne,
                                DoubleOfDecimal(SexRatioAtBirthNum,
                                                SexRatioAtBirthDen)))))
          born == results[k].population[1]
      IN  /\ born.age = 0
          /\ born.total = b
          /\ born.male = boys
          /\ born.female = b - boys
          /\ RatCmp(RatAbs(RatSub(RatOfNat(b),
                                  ExactBirths(results[k - 1].population))),
                    RatAdd(RatOfFrac(1, 2), RoundingTolerance)) <= 0
          /\ (SexRatioAtBirthNum + SexRatioAtBirthDen) * boys
               <= SexRatioAtBirthNum * b
          /\ (SexRatioAtBirthNum + SexRatioAtBirthDen) * (boys + 1)
               > SexRatioAtBirthNum * b
          /\ params.fertilityRate = 0 => b = 0

\* Children were born, more boys than girls, in a population that also has
\* men and has women younger than 15 and older than 49.
C22_Witness ==
  /\ Len(results) >= 2
  /\ params.fertilityRate > 0
  /\ results[2].population[1].male > results[2].population[1].female
  /\ results[2].population[1].female > 0
  /\ CountOfAge(results[1].population, 30, "male") > 0
  /\ CountOfAge(results[1].population, 10, "female") > 0
  /\ CountOfAge(results[1].population, 60, "female") > 0

\* The cohort of a given age in a snapshot (an empty record if absent).
CohortAt(pop, age) ==
  IF CohortsOfAge(pop, age) = {} THEN <<>>
  ELSE pop[CHOOSE i \in CohortsOfAge(pop, age) : TRUE]

\* C23: after each year's evolution of two snapshots that differ only in
\* the counts of the cohort of one age b, the next-year cohorts of age
\* a + 1 are the same for every age a in 0..98 other than b.  The snapshot
\* recorded k - 1 years after the start differs from its twin in the
\* cohort that started at the changed age, by then of age changedAge + k - 1,
\* and the evolution of the year before was given it at age
\* changedAge + k - 2.
C23_CohortsIndependent ==
  call.fn = "evolve" /\ call.changedAge >= 0 =>
    \A k \in 2..Len(runA.snapshots) :
      \A a \in 0..98 :
        a # call.changedAge + k - 2 =>
          CohortAt(runA.snapshots[k], a + 1)
            = CohortAt(runB.snapshots[k], a + 1)

\* In the fourth year of the two evolutions the cohort that differed
\* between the two snapshots gave different survivors, with migrants and
\* deaths in the cohorts around it.
C23_Witness ==
  /\ call.fn = "evolve"
  /\ call.changedAge = 64
  /\ Len(runA.snapshots) = MaxYears + 1
  /\ runA.year - startYear = MaxYears
  /\ runA.params.netMigration # 0
  /\ CohortAt(runA.snapshots[MaxYears + 1], 64 + MaxYears)
       # CohortAt(runB.snapshots[MaxYears + 1], 64 + MaxYears)
  /\ CohortAt(runA.snapshots[MaxYears + 1], 65 + MaxYears)
       = CohortAt(runB.snapshots[MaxYears + 1], 65 + MaxYears)
  /\ CohortAt(runA.snapshots[MaxYears + 1], 65 + MaxYears).total
       < CohortAt(runA.snapshots[MaxYears], 64 + MaxYears).total
  /\ runA.aged.totalDeaths # runB.aged.totalDeaths

\* The burden and the GDP proxy recomputed from the returned metrics and the
\* call: max(0, -ssBalance) + publicHealthcareCost, and
\* actualWorkforce * gdpPerWorker2024 * (1 + annualGrowthRate)^yearsFromBase.
BurdenOf(metrics) ==
  RatAdd(RatMax(RatOfNat(0), RatNeg(metrics.ssBalance)),
         metrics.publicHealthcareCost)

GdpProxyOf(metrics, yearsFromBase) ==
  RatMul(RatMul(RatOfNat(metrics.actualWorkforce),
                RatOfNat(gdpPerWorker2024)),
         RatPow(RatAdd(RatOfNat(1), annualGrowthRate), yearsFromBase))

\* C24: publicHealthcareCost is the public share of totalHealthcareCost; the
\* burden behind the per-worker burden and the sustainability index is
\* max(0, -ssBalance) + publicHealthcareCost, so a surplus offsets nothing;
\* when gdpProxy > 0 the index is 0 exactly when the burden is at least 40%
\* of gdpProxy, 100 exactly when the burden is 0, and
\* 100 * (1 - burden / (0.40 * gdpProxy)) in between.
C24_IndexFromPublicBurden ==
  returned /\ call.fn = "calculateEconomicMetrics" =>
    LET burden == BurdenOf(value)
        gdp    == GdpProxyOf(value, call.yearsFromBase)
        limit  == RatMul(RatOfFrac(40, 100), gdp)
        index  == value.sustainabilityIndex
        atZero == RatCmp(index, RatOfNat(0)) = 0
        atTop  == RatCmp(index, RatOfNat(100)) = 0
    IN  /\ RatCmp(value.publicHealthcareCost,
                  RatMul(value.totalHealthcareCost, RatOfFrac(66, 100))) = 0
        /\ value.actualWorkforce > 0 =>
             RatCmp(RatMul(value.totalBurdenPerWorker,
                           RatOfNat(value.actualWorkforce)), burden) = 0
        /\ RatCmp(gdp, RatOfNat(0)) > 0 =>
             /\ atZero <=> RatCmp(burden, limit) >= 0
             /\ atTop <=> RatIsZero(burden)
             /\ ~atZero /\ ~atTop =>
                  RatCmp(RatMul(index, limit),
                         RatMul(RatOfNat(100), RatSub(limit, burden))) = 0

\* A call with a social-security surplus and an index strictly between 0
\* and 100: the index reflects the public healthcare cost alone.
C24_Witness ==
  /\ returned
  /\ call.fn = "calculateEconomicMetrics"
  /\ call.yearsFromBase > 0
  /\ RatCmp(value.ssBalance, RatOfNat(0)) > 0
  /\ RatCmp(value.sustainabilityIndex, RatOfNat(0)) > 0
  /\ RatCmp(value.sustainabilityIndex, RatOfNat(100)) < 0
  /\ RatCmp(BurdenOf(value), value.publicHealthcareCost) = 0

\* What one cohort of retirement age adds to the people in work
\* (working = TRUE), total * employment rate of the age, or to those not in
\* work, total * (1 - employment rate); nothing below the retirement age.
RetireesOfCohort(g, retirementAge, shift, unemployment, working) ==
  IF g.age < retirementAge THEN DoubleZero
  ELSE DoubleMul(DoubleOfInt(g.total),
         IF working THEN getEmploymentRate(g.age, shift, unemployment)
         ELSE DoubleSub(DoubleOne,
                        getEmploymentRate(g.age, shift, unemployment)))

\* These shares added up over the cohorts from..to in the order of the
\* snapshot, from the sum before them.
RECURSIVE RetireesByWork(_, _, _, _, _, _, _, _)
RetireesByWork(pop, from, to, before, retirementAge, shift, unemployment, working) ==
  IF from > to THEN before
  ELSE IF from = to
  THEN DoubleAdd(before,
                 RetireesOfCohort(pop[from], retirementAge, shift,
                                  unemployment, working))
  ELSE CHOOSE sum \in
         {RetireesByWork(pop, ((from + to) \div 2) + 1, to, half,
                         retirementAge, shift, unemployment, working) :
            half \in {RetireesByWork(pop, from, (from + to) \div 2, before,
                                     retirementAge, shift, unemployment,
                                     working)}} : TRUE

\* For one cohort, the part in work and the part not in work add up to the
\* cohort, rounding errors apart.
PartsAddUp(g, shift, unemployment) ==
  LET rate == getEmploymentRate(g.age, shift, unemployment)
  IN  RatNear(RatAdd(DoubleAsRat(DoubleMul(DoubleOfInt(g.total), rate)),
                     DoubleAsRat(DoubleMul(DoubleOfInt(g.total),
                                           DoubleSub(DoubleOne, rate)))),
              RatOfNat(g.total))

\* C25: the pension payments are the indexed average pension times the
\* rounded sum, over the cohorts of retirement age, of total * (1 -
\* employment rate of the age); for each of these cohorts the people in
\* work and the pensioners add up to the cohort total, so the pensioners
\* are at most the retirement-age population, and rounded workers + rounded
\* pensioners differ from it by at most one.
C25_PensionsForActualPensioners ==
  returned /\ call.fn = "calculateEconomicMetrics" =>
    LET pop == call.population
        inWork ==
          MathRound(RetireesByWork(pop, 1, Len(pop), DoubleZero,
                      call.retirementAge,
                      call.workforceEntryAgeShift,
                      call.unemploymentAdjustment, TRUE))
        actualPensioners ==
          MathRound(RetireesByWork(pop, 1, Len(pop), DoubleZero,
                      call.retirementAge,
                      call.workforceEntryAgeShift,
                      call.unemploymentAdjustment, FALSE))
        retiredPop == PeopleAged(pop, call.retirementAge, 1000, 1, Len(pop))
        avgPension ==
          RatMul(RatOfNat(averagePension2024 * annualMultiplier),
                 RatPow(RatAdd(RatOfNat(1), annualGrowthRate),
                        call.yearsFromBase))
    IN  /\ RatCmp(value.totalPensionPayments,
                  RatMul(RatOfNat(actualPensioners), avgPension)) = 0
        /\ inWork >= 0
        /\ \A i \in 1..Len(pop) :
             pop[i].age >= call.retirementAge =>
               PartsAddUp(pop[i], call.workforceEntryAgeShift,
                          call.unemploymentAdjustment)
        /\ actualPensioners <= retiredPop
        /\ Abs(inWork + actualPensioners - retiredPop) <= 1

\* A call in which some people of retirement age work, so that the payments
\* are below the average pension times the retirement-age population.
C25_Witness ==
  /\ returned
  /\ call.fn = "calculateEconomicMetrics"
  /\ call.yearsFromBase > 0
  /\ LET pop == call.population
         inWork == MathRound(RetireesByWork(pop, 1, Len(pop), DoubleZero,
                     call.retirementAge, call.workforceEntryAgeShift,
                     call.unemploymentAdjustment, TRUE))
         retiredPop == PeopleAged(pop, call.retirementAge, 1000, 1, Len(pop))
     IN  /\ inWork > 0
         /\ inWork < retiredPop
         /\ RatCmp(value.totalPensionPayments,
                   RatMul(RatOfNat(retiredPop),
                     RatMul(RatOfNat(averagePension2024 * annualMultiplier),
                       RatPow(RatAdd(RatOfNat(1), annualGrowthRate),
                              call.yearsFromBase)))) < 0

\* The call is for an age outside the table its function reads.
OutOfRange ==
  \/ call.fn \in {"getMortalityRate", "getMigrationWeight",
                  "getEmploymentRate", "getHealthcareMultiplier"}
     /\ (call.age < 0 \/ call.age > 100)
  \/ call.fn = "getFertilityRate" /\ (call.age < 15 \/ call.age > 49)

YoungestEmploymentRate(unemploymentAdjustment) ==
  ClampRate(DoubleMul(DoubleOfDecimal(employmentRates[1].rate, RateDen),
                      DoubleSub(DoubleOne,
                                DoubleOfDecimal(unemploymentAdjustment,
                                                UnemploymentDen))))

EvolutionSteps == {"Births", "Migration", "Leftover", "Aging", "Terminal"}

\* C27: a Year Record is appended only at the head of the loop body, for
\* the current year, holding the snapshot as it stands then and the
\* economic metrics of that snapshot at offset year - startYear; the
\* evolution that follows reads the snapshot of that record at that year
\* and appends nothing; the balance check follows the evolution, installs
\* the evolved snapshot and advances the year before the next record is
\* appended.
C27_RecordThenEvolveThenCheck ==
  [][/\ results' # results =>
         /\ pc = "Running" /\ pc' = "Births"
         /\ Len(results') = Len(results) + 1
         /\ SubSeq(results', 1, Len(results)) = results
         /\ LET rec == results'[Len(results')]
            IN  /\ rec.year = year
                /\ rec.population = currentPop
                /\ rec.economic =
                     calculateEconomicMetrics(currentPop,
                       params.retirementAge, year - startYear,
                       params.workforceEntryAgeShift,
                       params.unemploymentAdjustment)
         /\ currentPop' = currentPop /\ year' = year
     /\ pc \in EvolutionSteps =>
         /\ results' = results /\ currentPop' = currentPop /\ year' = year
         /\ results[Len(results)].population = currentPop
         /\ results[Len(results)].year = year
         /\ pc' \in EvolutionSteps \cup {"Balance"}
     /\ pc = "Balance" =>
         /\ results' = results
         /\ currentPop' = nextPop
         /\ year' = year + 1
         /\ pc' = "Running"
     /\ pc' = "Balance" => pc = "Terminal"
     /\ currentPop' # currentPop => pc \in {"Validating", "Balance"}]_vars

\* The record of a year after the first has been appended: its snapshot is
\* the one the evolution of the year before produced, and differs from the
\* snapshot of the record before.
C27_Witness ==
  /\ pc = "Births"
  /\ Len(results) >= 3
  /\ year = startYear + 2
  /\ results[3].year = year
  /\ results[3].population = currentPop
  /\ results[3].population = nextPop
  /\ results[3].population # results[2].population
  /\ results[3].economic # results[2].economic

\* The sum of the totals of the cohorts from..to of a snapshot whose age is
\* at least lo and below hi.
RECURSIVE TotalsAged(_, _, _, _, _)
TotalsAged(pop, lo, hi, from, to) ==
  IF from > to THEN 0
  ELSE IF from = to
  THEN (IF pop[from].age >= lo /\ pop[from].age < hi THEN pop[from].total
        ELSE 0)
  ELSE LET mid == (from + to) \div 2
       IN  TotalsAged(pop, lo, hi, from, mid)
           + TotalsAged(pop, lo, hi, mid + 1, to)

\* The number of the three age bands a cohort of a given age belongs to.
BandsOf(age, retirementAge) ==
  (IF age < 15 THEN 1 ELSE 0)
  + (IF age >= 15 /\ age < retirementAge THEN 1 ELSE 0)
  + (IF age >= retirementAge THEN 1 ELSE 0)

\* C28: in every Year Record (checked as soon as it is appended) the three
\* band populations are the sums of the cohort totals of the ages below
\* 15, from 15 up to the retirement age, and from the retirement age on;
\* they add up to totalPopulation, which is the sum of all cohort totals of
\* the record's snapshot; every cohort is in exactly one band.
C28_BandsPartition ==
  results # <<>> /\ pc = "Births" =>
    LET rec == results[Len(results)]
        pop == rec.population
        n   == Len(pop)
    IN  /\ rec.childPop = TotalsAged(pop, -1000, 15, 1, n)
        /\ rec.workingAgePop = TotalsAged(pop, 15, params.retirementAge, 1, n)
        /\ rec.retiredPop = TotalsAged(pop, params.retirementAge, 1000, 1, n)
        /\ rec.childPop + rec.workingAgePop + rec.retiredPop
             = rec.totalPopulation
        /\ rec.totalPopulation = TotalsAged(pop, -1000, 1000, 1, n)
        /\ \A i \in 1..n : BandsOf(pop[i].age, params.retirementAge) = 1

\* A record after the first, with a retirement age other than the default
\* and people in each of the three bands.
C28_Witness ==
  /\ pc = "Births"
  /\ Len(results) >= 2
  /\ params.retirementAge = 80
  /\ results[Len(results)].childPop > 0
  /\ results[Len(results)].workingAgePop > results[Len(results)].retiredPop
  /\ results[Len(results)].retiredPop > 0
  /\ results[Len(results)].population # results[1].population

\* totalPopulation as the Year Record of a snapshot holds it under a
\* parameter set.
TotalPopulationOf(pop, p) ==
  ChildPop(pop) + WorkingPop(pop, p.retirementAge)
    + RetiredPop(pop, p.retirementAge)

\* C29: two runs from the baseline whose parameter sets differ only in
\* retirementAge, workforceEntryAgeShift and unemploymentAdjustment have the
\* same snapshots at every step of every year, the snapshot under
\* construction included, and the same totalPopulation in the record of
\* every year.
C29_SnapshotsIgnoreEconomics ==
  call.fn = "evolve" /\ call.changedAge < 0 =>
    /\ runA.snapshots = runB.snapshots
    /\ runA.aged.nextPop = runB.aged.nextPop
    /\ runA.aged.totalDeaths = runB.aged.totalDeaths
    /\ runA.pc = "Births" =>
         TotalPopulationOf(runA.currentPop, runA.params)
           = TotalPopulationOf(runB.currentPop, runB.params)

\* Two runs of at least three years whose three economic parameters all
\* differ, under migration and changing mortality.
C29_Witness ==
  /\ call.fn = "evolve"
  /\ call.changedAge < 0
  /\ Len(runA.snapshots) >= 3
  /\ runA.params.retirementAge # runB.params.retirementAge
  /\ runA.params.workforceEntryAgeShift # runB.params.workforceEntryAgeShift
  /\ runA.params.unemploymentAdjustment # runB.params.unemploymentAdjustment
  /\ runA.params.mortalityImprovement.male # 0
  /\ runA.params.netMigration = runB.params.netMigration
  /\ runA.params.netMigration # 0
  /\ runA.snapshots[3] # runA.snapshots[2]
  /\ runB.snapshots[3] = runA.snapshots[3]
  /\ WorkingPop(runA.snapshots[3], runA.params.retirementAge)
       # WorkingPop(runB.snapshots[3], runB.params.retirementAge)

\* Every cohort of a snapshot has total = male + female.
TotalsAddUp(pop) ==
  \A i \in 1..Len(pop) : pop[i].total = pop[i].male + pop[i].female

\* C30: every cohort of the snapshot of every Year Record (checked as soon
\* as the record is appended), of the current snapshot and of the snapshot
\* under construction has total = male + female: the seeded cohorts, the
\* newborn cohort, the aged-forward cohorts and the age-100 aggregate.
C30_TotalIsMalePlusFemale ==
  /\ TotalsAddUp(currentPop)
  /\ TotalsAddUp(nextPop)
  /\ results # <<>> /\ pc = "Births" =>
       TotalsAddUp(results[Len(results)].population)

\* A record after the first whose snapshot holds a newborn cohort with
\* more boys than girls, aged-forward cohorts and a non-empty age-100
\* aggregate.
C30_Witness ==
  /\ pc = "Births"
  /\ Len(results) >= 2
  /\ LET pop == results[Len(results)].population
     IN  /\ pop[1].age = 0
         /\ pop[1].male > pop[1].female
         /\ pop[1].female > 0
         /\ pop[1].total % 2 = 1
         /\ pop[31].age = 30
         /\ pop[31].total > 0
         /\ pop[31] # results[1].population[31]
         /\ pop[Len(pop)].age = 100
         /\ pop[Len(pop)].total > 0

====
